---- MODULE Spec2Model ----
(***************************************************************************)
(* Model of simple_ssh: the session builder and session state machine      *)
(* (src/src/lib.rs), the PTY I/O actor with its handle, and the two        *)
(* escape-sequence detectors (src/src/pty_mode.rs, src/src/pty_pwd.rs).    *)
(***************************************************************************)
EXTENDS Integers, Sequences, FiniteSets, TLC

VARIABLES
    builder,      \* SessionBuilder fields
    calls,        \* history of the builder calls made since Session::init()
    phase,        \* "builder" | "session" | "consumed"
    sess,         \* Session { inner: SessionInner }
    transport,    \* what the session has asked of the transport library
    local,        \* local side effects: file opened, raw mode enabled
    lastOp,       \* the last operation, its result and the session before it
    pc,           \* where pty_io_task is suspended, or how it ended
    status,       \* the exit status remembered by pty_io_task
    held,         \* the Data bytes pty_io_task is sending to the output queue
    inputQ,       \* input queue (input_tx -> input_rx)
    outputQ,      \* output queue (output_tx -> output_rx)
    resizeQ,      \* resize queue (resize_tx -> resize_rx)
    toRemote,     \* what pty_io_task has sent on the channel
    exitSlot,     \* the exit watch channel (exit_tx -> exit_rx)
    handle,       \* PtyHandle: "open" | "waiting" | "waited" | "dropped"
    closed,       \* PtyHandle.closed
    modeDet,      \* Option<Arc<ModeDetection>>
    pwdDet,       \* Option<Arc<PwdDetection>>
    clock,        \* time since the drain phase began / since the sleep began
    recvLog,      \* history: the messages channel.wait() has returned
    readLog,      \* history: what read() has returned
    callLog,      \* history: the results of the write and of the resize calls
    waitResult,   \* what wait() returned
    run,          \* PtyBuilder::run: its position, the terminal, its result
    hook,         \* the process-wide panic hook, PANIC_HOOK_SET and
                  \* PREV_PANIC_HOOK
    threads,      \* the position of each caller of setup_panic_hook
    scp,          \* the scp() call: its position, its locals, its result
    scpChan,      \* messages of the remote not yet returned by channel.wait()
    scpSent,      \* what scp() has sent on its channel
    cmdv,         \* SessionData*::cmdv, the configured command vector
    ex,           \* a run/exec/system/cmd call or PtyBuilder::open: the command
                  \* it submits, the locals of system(), its result
    ptyb,         \* PtyBuilder: mode_detection_config, pwd_detection_config
    chan,         \* the watch channels of the two detectors
    watchers,     \* the ModeWatcher and PwdWatcher values, their pending calls
    ps,           \* history: the bytes the remote sends, how far they are
                  \* fed, what the parsers have emitted at which byte
    hist,         \* PtyHistory: its config, entries, memory counter, pending
                  \* text and watch channel
    hw            \* the HistoryWatcher values and their pending calls

sessVars == <<builder, calls, phase, sess, transport, local, lastOp>>

ptyVars ==
    <<pc, status, held, inputQ, outputQ, resizeQ, toRemote,
      exitSlot, handle, closed, modeDet, pwdDet, clock, recvLog, readLog,
      callLog, waitResult>>

runVars == <<run>>

hookVars == <<hook, threads>>

scpVars == <<scp, scpChan, scpSent>>

execVars == <<cmdv, ex>>

\* the variables of the parts other than the session and the PTY session
detVars == <<ptyb, chan, watchers, ps>>

\* the history buffer and its watchers
histVars == <<hist, hw>>

moreVars == <<runVars, hookVars, scpVars, execVars, detVars, histVars>>

vars == <<sessVars, ptyVars, moreVars>>

(***************************************************************************)
(* Bounds                                                                  *)
(***************************************************************************)
MaxBuilderCalls == 2
MaxOps == 2
\* inputs of one PTY session: messages the remote sends plus write and
\* resize calls on the handle
MaxEnvSteps == 3
\* messages the remote sends in one PTY session
MaxRemoteMsgs == 3
\* write and resize calls on one PtyHandle
MaxWrites == 2
MaxResizes == 2
\* channel EOFs pty_io_task sends
MaxEofs == 2
\* queue capacities, scaled down from 64, 256 and 4
InputCap == 1
OutputCap == 1
ResizeCap == 1
\* clock ticks per second and the last tick of the clock
TicksPerSecond == 2
ClockSlack == 1
\* messages the remote sends during one scp() call
MaxScpMsgs == 4
\* the length of the local file and the chunk buffer, scaled down from
\* 16 * 1024
MaxFileLen == 3
ChunkSize == 2
\* threads that call setup_panic_hook, calls per thread, panics
NumThreads == 3
MaxHookCalls == 2
MaxPanics == 2

None == "None"

Keys == {"id_rsa"}
Certs == {"id_rsa-cert.pub"}
Passwds == {"secret"}
Cmdvs == {<<"bash">>, <<"echo", "hello world">>}

Opt(S) == S \cup {None}

(***************************************************************************)
(* Session builder                                                         *)
(***************************************************************************)
\* Session::init()
SessionInit ==
    [cmdv |-> <<"bash">>, host |-> "localhost", user |-> "root",
     passwd |-> None, cert |-> None, key |-> None, port |-> 22,
     scope |-> None, inactivity_timeout |-> 3000]

\* SessionDataPasswd / SessionDataPubKey / SessionDataNoAuth as one record;
\* a field the variant does not have is None
SessionData(b, passwd, key, cert) ==
    [user |-> b.user, host |-> b.host, cmdv |-> b.cmdv, port |-> b.port,
     passwd |-> passwd, key |-> key, cert |-> cert, scope |-> b.scope,
     inactivity_timeout |-> b.inactivity_timeout]

NoSession ==
    [variant |-> None, session |-> FALSE,
     data |-> SessionData(SessionInit, None, None, None)]

NoEnv ==
    [keyload |-> None, certload |-> None, resolve |-> None, tcp |-> None,
     auth |-> None]

NoOp == [op |-> None, result |-> None, before |-> NoSession, env |-> NoEnv]

\* SessionBuilder::with_key / with_key_opt
with_key_opt(b, key) == [b EXCEPT !.key = key]

\* SessionBuilder::with_cert / with_cert_opt
with_cert_opt(b, cert) == [b EXCEPT !.cert = cert]

\* SessionBuilder::with_passwd / with_passwd_opt
with_passwd_opt(b, passwd) == [b EXCEPT !.passwd = passwd]

\* SessionBuilder::with_cmd
with_cmd(b, v) == [b EXCEPT !.cmdv = v]

build_passwd_first(b) ==
    IF b.passwd # None THEN
        [variant |-> "Passwd", session |-> FALSE,
         data |-> SessionData(b, b.passwd, None, None)]
    ELSE IF b.key # None THEN
        [variant |-> "PubKey", session |-> FALSE,
         data |-> SessionData(b, None, b.key, b.cert)]
    ELSE
        [variant |-> "NoAuth", session |-> FALSE,
         data |-> SessionData(b, None, None, None)]

\* SessionBuilder::build: key > password > none
build(b) ==
    IF b.key # None THEN
        [variant |-> "PubKey", session |-> FALSE,
         data |-> SessionData(b, None, b.key, b.cert)]
    ELSE IF b.passwd # None THEN
        [variant |-> "Passwd", session |-> FALSE,
         data |-> SessionData(b, b.passwd, None, None)]
    ELSE
        [variant |-> "NoAuth", session |-> FALSE,
         data |-> SessionData(b, None, None, None)]

\* channels: channels opened; disconnects: Disconnect requests driven on the
\* handle; live: transport handles alive
NoTransport == [channels |-> 0, disconnects |-> 0, live |-> 0]
\* file: a local file was opened; terminal: raw mode was enabled
NoLocal == [file |-> FALSE, terminal |-> FALSE]

\* no PTY session has been opened
NoPty ==
    /\ pc = "none"
    /\ status = <<>>
    /\ held = <<>>
    /\ inputQ = <<>>
    /\ outputQ = <<>>
    /\ resizeQ = <<>>
    /\ toRemote = <<>>
    /\ exitSlot = <<>>
    /\ handle = "none"
    /\ closed = FALSE
    /\ modeDet = <<>>
    /\ pwdDet = <<>>
    /\ clock = [drain |-> 0, sleep |-> 0]
    /\ recvLog = <<>>
    /\ readLog = [batches |-> <<>>, eos |-> FALSE]
    /\ callLog = [write |-> <<>>, resize |-> <<>>]
    /\ waitResult = <<>>

FreshBuilder ==
    /\ builder = SessionInit
    /\ calls = <<>>
    /\ phase = "builder"
    /\ sess = NoSession
    /\ transport = NoTransport
    /\ local = NoLocal
    /\ lastOp = NoOp

\* PtyBuilder::run has not been called
NoRun ==
    run = [pc |-> "none", raw_mode |-> FALSE, auto_resize |-> FALSE,
           stdin_closed |-> FALSE, raw |-> FALSE, term |-> <<>>,
           result |-> <<>>]

Threads == 1..NumThreads

\* the hooks a process may have installed before the first raw-mode run: the
\* standard one or one of its own
InitialHooks == {"default", "user"}

\* a process in which setup_panic_hook was never called: PANIC_HOOK_SET is
\* new, PREV_PANIC_HOOK holds None
FreshHook(h) ==
    [once |-> "new", current |-> h, prev |-> <<>>, initial |-> h,
     installs |-> 0, stores |-> 0, panics |-> 0, log |-> <<>>]

IdleThreads == [t \in Threads |-> [pc |-> "idle", taken |-> "", calls |-> 0]]

NoHook ==
    /\ hook = FreshHook("default")
    /\ threads = IdleThreads

\* scp() has not been called
NoScp ==
    /\ scp = [pc |-> "none",
              remote_path |-> [raw |-> "", components |-> <<>>], file |-> <<>>, off |-> 0,
              chunk |-> <<>>, wclock |-> 0, acks |-> <<>>,
              first_fatal |-> <<>>, arrived |-> 0, result |-> <<>>]
    /\ scpChan = <<>>
    /\ scpSent = <<>>

\* no command has been submitted; cmdv is the builder's default, ["bash"]
NoCall ==
    [session |-> FALSE, pc |-> "none", op |-> "", argv |-> <<>>, text |-> <<>>, command |-> <<>>,
     err |-> FALSE, out |-> FALSE, code |-> <<>>, stdout |-> <<>>,
     stderr |-> <<>>, seen |-> <<>>, ended |-> FALSE, result |-> <<>>]

NoExec ==
    /\ cmdv = << <<"b", "a", "s", "h">> >>
    /\ ex = NoCall

\* tokio::sync::watch channel: the slot, the number of values sent, whether
\* the sender is dropped
watch_channel(init) == [value |-> init, version |-> 0, closed |-> FALSE]

\* ptyb holds the two detection fields of PtyBuilder and, as history, which
\* enabled flag the caller last asked for and how many calls were made
\* no detection is configured, nothing is fed, nobody watches
NoDet ==
    /\ ptyb = [mode_detection_config |-> <<>>, pwd_detection_config |-> <<>>,
               asked |-> [mode |-> <<>>, pwd |-> <<>>, calls |-> 0]]
    /\ chan = [mode |-> watch_channel("Standard"), pwd |-> watch_channel(<<>>)]
    /\ watchers = <<>>
    /\ ps = [stream |-> <<>>, bytes |-> <<>>, pos |-> 0, mid |-> FALSE,
             events |-> <<>>, paths |-> <<>>]

\* no history buffer exists
NoHist ==
    /\ hist = <<>>
    /\ hw = <<>>

\* the parts a specification does not use stay as constructed
Idle(used) ==
    /\ IF "det" \in used THEN TRUE ELSE NoDet
    /\ IF "exec" \in used THEN TRUE ELSE NoExec
    /\ IF "run" \in used THEN TRUE ELSE NoRun
    /\ IF "hook" \in used THEN TRUE ELSE NoHook
    /\ IF "scp" \in used THEN TRUE ELSE NoScp
    /\ IF "hist" \in used THEN TRUE ELSE NoHist

InitSession == FreshBuilder /\ NoPty /\ Idle({})

\* a builder call: with_key(_opt), with_cert(_opt), with_passwd(_opt), with_cmd
BuilderCall ==
    /\ phase = "builder"
    /\ Len(calls) < MaxBuilderCalls
    /\ \/ \E k \in Opt(Keys) :
            /\ builder' = with_key_opt(builder, k)
            /\ calls' = Append(calls, <<"key", k>>)
       \/ \E c \in Opt(Certs) :
            /\ builder' = with_cert_opt(builder, c)
            /\ calls' = Append(calls, <<"cert", c>>)
       \/ \E p \in Opt(Passwds) :
            /\ builder' = with_passwd_opt(builder, p)
            /\ calls' = Append(calls, <<"passwd", p>>)
       \/ \E c \in Cmdvs :
            /\ builder' = with_cmd(builder, c)
            /\ calls' = Append(calls, <<"cmd", c>>)
    /\ UNCHANGED <<phase, sess, transport, local, lastOp, ptyVars,
                   moreVars>>

\* SessionBuilder::build consumes the builder and yields the Session
Build ==
    /\ phase = "builder"
    /\ phase' = "session"
    /\ sess' = build(builder)
    /\ lastOp' = [op |-> "build", result |-> "Ok", before |-> NoSession,
                  env |-> NoEnv]
    /\ UNCHANGED <<builder, calls, transport, local, ptyVars,
                   moreVars>>

(***************************************************************************)
(* Session state machine                                                   *)
(***************************************************************************)
\* what the collaborators answer at each stage of a connect; a stage that
\* is not reached (an earlier stage returned with `?`) has no answer
ConnectEnvs ==
    [keyload : Opt({"ok", "fail"}), certload : Opt({"ok", "fail"}),
     resolve : Opt({"ok", "empty", "error"}), tcp : Opt({"ok", "fail"}),
     auth : Opt({"success", "failure", "error"})]

Reached(s, env) ==
    /\ (env.keyload # None) <=> (s.variant = "PubKey")
    /\ (env.certload # None) <=>
           (s.variant = "PubKey" /\ env.keyload = "ok" /\ s.data.cert # None)
    /\ (env.resolve # None) <=>
           (env.keyload \in {"ok", None} /\ env.certload \in {"ok", None})
    /\ (env.tcp # None) <=> (env.resolve = "ok")
    /\ (env.auth # None) <=> (env.tcp = "ok")

\* the error text of the variant's authentication failure
AuthFailed(s) ==
    CASE s.variant = "Passwd" -> "Authentication (with passwd) failed"
      [] s.variant = "NoAuth" -> "Authentication None failed"
      [] s.variant = "PubKey" /\ s.data.cert = None ->
            "Authentication (with publickey) failed"
      [] OTHER -> "Authentication (with publickey+cert) failed"

\* resolve_socket_addr
resolve_socket_addr(env) ==
    CASE env.resolve = "ok" -> "Ok"
      [] env.resolve = "empty" -> "No socket addresses resolved"
      [] OTHER -> "Failed to resolve host"

\* the part of connect_* after the keys are loaded: resolve, connect,
\* authenticate, check auth_res.success()
connect_auth_unchecked(s, env) ==
    IF resolve_socket_addr(env) # "Ok" THEN resolve_socket_addr(env)
    ELSE IF env.tcp # "ok" THEN "TransportError"
    ELSE IF env.auth = "error" THEN "TransportError"
    ELSE "Ok"

connect_auth(s, env) ==
    IF resolve_socket_addr(env) # "Ok" THEN resolve_socket_addr(env)
    ELSE IF env.tcp # "ok" THEN "TransportError"
    ELSE IF env.auth = "error" THEN "TransportError"
    ELSE IF env.auth # "success" THEN AuthFailed(s)
    ELSE "Ok"

\* SessionInner::connect: connect_passwd / connect_key / connect_noauth
connect(s, env) ==
    IF s.variant = "PubKey" THEN
        IF env.keyload # "ok" THEN "KeyLoadFailed"
        ELSE IF s.data.cert # None /\ env.certload # "ok"
             THEN "CertLoadFailed"
        ELSE connect_auth(s, env)
    ELSE connect_auth(s, env)

\* Session::connect consumes the session; Ok carries the same data with the
\* handle, Err leaves no session
Connect ==
    /\ phase = "session"
    /\ \E env \in ConnectEnvs :
         LET r == connect(sess, env) IN
         /\ Reached(sess, env)
         /\ lastOp' = [op |-> "connect", result |-> r, before |-> sess,
                       env |-> env]
         /\ IF r = "Ok"
            THEN /\ sess' = [sess EXCEPT !.session = TRUE]
                 /\ phase' = "session"
                 /\ transport' = [NoTransport EXCEPT !.live = 1]
            ELSE /\ sess' = NoSession
                 /\ phase' = "consumed"
                 /\ transport' = NoTransport
    /\ UNCHANGED <<builder, calls, local, ptyVars,
                   moreVars>>

\* SessionInner::get_session
get_session(s) == s.session

\* the transport still serves requests on the handle
Alive == transport.disconnects = 0

SystemOutcomes == {"Ok", "program did not exit cleanly", "TransportError"}

\* SessionInner::exec / cmd followed by system(): one channel is opened on a
\* present handle; without a handle the call fails before anything is sent
ExecPipeline(op) ==
    /\ phase = "session"
    /\ IF get_session(sess)
       THEN /\ transport.channels < MaxOps
            /\ IF Alive
               THEN /\ transport' =
                         [transport EXCEPT !.channels = @ + 1]
                    /\ \E r \in SystemOutcomes :
                         lastOp' = [op |-> op, result |-> r,
                                    before |-> sess, env |-> NoEnv]
               ELSE /\ transport' = transport
                    /\ lastOp' = [op |-> op, result |-> "TransportError",
                                  before |-> sess, env |-> NoEnv]
       ELSE /\ transport' = transport
            /\ lastOp' = [op |-> op, result |-> "No open session",
                          before |-> sess, env |-> NoEnv]
    /\ UNCHANGED <<builder, calls, phase, sess, local, ptyVars,
                   moreVars>>

\* Session::run
Run == ExecPipeline("run")

\* Session::exec
Exec == ExecPipeline("exec")

\* Session::system
System == ExecPipeline("system")

\* Session::cmd
Cmd == ExecPipeline("cmd")

ScpOutcomes == {"Ok", "IoError", "TransportError", "ScpError"}

Scp_file_first ==
    /\ phase = "session"
    /\ local' = [local EXCEPT !.file = TRUE]
    /\ IF get_session(sess)
       THEN /\ transport.channels < MaxOps
            /\ \E r \in ScpOutcomes :
                 /\ lastOp' = [op |-> "scp", result |-> r, before |-> sess,
                               env |-> NoEnv]
                 /\ transport' =
                      IF r = "IoError" \/ ~Alive THEN transport
                      ELSE [transport EXCEPT !.channels = @ + 1]
       ELSE /\ transport' = transport
            /\ lastOp' = [op |-> "scp", result |-> "No open session",
                          before |-> sess, env |-> NoEnv]
    /\ UNCHANGED <<builder, calls, phase, sess, ptyVars,
                   moreVars>>

\* Session::scp: SessionInner::scp checks the handle, then scp() opens the
\* local file and the channel
Scp ==
    /\ phase = "session"
    /\ IF get_session(sess)
       THEN /\ transport.channels < MaxOps
            /\ local' = [local EXCEPT !.file = TRUE]
            /\ \E r \in ScpOutcomes :
                 /\ ~Alive => r \in {"IoError", "TransportError"}
                 /\ lastOp' = [op |-> "scp", result |-> r, before |-> sess,
                               env |-> NoEnv]
                 /\ transport' =
                      IF r = "IoError" \/ ~Alive THEN transport
                      ELSE [transport EXCEPT !.channels = @ + 1]
       ELSE /\ local' = local
            /\ transport' = transport
            /\ lastOp' = [op |-> "scp", result |-> "No open session",
                          before |-> sess, env |-> NoEnv]
    /\ UNCHANGED <<builder, calls, phase, sess, ptyVars,
                   moreVars>>

\* PtyBuilder::open: the handle is checked before the channel is opened
PtyOpen ==
    /\ phase = "session"
    /\ IF get_session(sess)
       THEN /\ transport.channels < MaxOps
            /\ IF Alive
               THEN /\ transport' =
                         [transport EXCEPT !.channels = @ + 1]
                    /\ \E r \in {"Ok", "TransportError"} :
                         lastOp' = [op |-> "pty_open", result |-> r,
                                    before |-> sess, env |-> NoEnv]
               ELSE /\ transport' = transport
                    /\ lastOp' = [op |-> "pty_open",
                                  result |-> "TransportError",
                                  before |-> sess, env |-> NoEnv]
       ELSE /\ transport' = transport
            /\ lastOp' = [op |-> "pty_open", result |-> "No open session",
                          before |-> sess, env |-> NoEnv]
    /\ UNCHANGED <<builder, calls, phase, sess, local, ptyVars,
                   moreVars>>

\* Session::pty and PtyBuilder::run: open() first, raw mode only afterwards
PtyRun ==
    /\ phase = "session"
    /\ \E op \in {"pty", "pty_run"}, raw_mode \in BOOLEAN :
         /\ op = "pty" => ~raw_mode
         /\ IF get_session(sess)
            THEN /\ transport.channels < MaxOps
                 /\ IF Alive
                    THEN /\ transport' =
                              [transport EXCEPT !.channels = @ + 1]
                         /\ \E r \in {"Ok", "TransportError"} :
                              /\ lastOp' = [op |-> op, result |-> r,
                                            before |-> sess, env |-> NoEnv]
                              /\ local' =
                                   IF raw_mode /\ r = "Ok"
                                   THEN [local EXCEPT !.terminal = TRUE]
                                   ELSE local
                    ELSE /\ transport' = transport
                         /\ local' = local
                         /\ lastOp' = [op |-> op,
                                       result |-> "TransportError",
                                       before |-> sess, env |-> NoEnv]
            ELSE /\ transport' = transport
                 /\ local' = local
                 /\ lastOp' = [op |-> op, result |-> "No open session",
                               before |-> sess, env |-> NoEnv]
    /\ UNCHANGED <<builder, calls, phase, sess, ptyVars,
                   moreVars>>

\* close_session: Disconnect(ByApplication) on the handle
close_session(t) == [t EXCEPT !.disconnects = @ + 1]

\* SessionInner::close: get_session() lends the handle, close_session sends
\* the disconnect; the Option holding the handle is not assigned
Close ==
    /\ phase = "session"
    /\ IF get_session(sess)
       THEN /\ transport.disconnects < MaxOps
            /\ transport' = close_session(transport)
            /\ \E r \in {"Ok", "TransportError"} :
                 /\ Alive => r = "Ok"
                 /\ lastOp' = [op |-> "close", result |-> r,
                               before |-> sess, env |-> NoEnv]
       ELSE /\ transport' = transport
            /\ lastOp' = [op |-> "close", result |-> "Ok", before |-> sess,
                          env |-> NoEnv]
    /\ UNCHANGED <<builder, calls, phase, sess, local, ptyVars,
                   moreVars>>

\* the session (or what is left of it) is dropped and Session::init() called
Reinit ==
    /\ phase \in {"session", "consumed"}
    /\ builder' = SessionInit
    /\ calls' = <<>>
    /\ phase' = "builder"
    /\ sess' = NoSession
    /\ transport' = NoTransport
    /\ local' = NoLocal
    /\ lastOp' = NoOp
    /\ UNCHANGED <<ptyVars, moreVars>>

NextSession ==
    \/ BuilderCall
    \/ Build
    \/ Connect
    \/ Run
    \/ Exec
    \/ System
    \/ Cmd
    \/ Scp
    \/ PtyOpen
    \/ PtyRun
    \/ Close
    \/ Reinit

SpecSession == InitSession /\ [][NextSession]_vars

(***************************************************************************)
(* Bytes                                                                   *)
(***************************************************************************)
BEL == 7
ESC == 27
PERCENT == 37
SLASH == 47
SEMICOLON == 59
EQUALS == 61
QUESTION == 63
LBRACKET == 91
BACKSLASH == 92
RBRACKET == 93

\* u8::is_ascii_digit
is_ascii_digit(b) == b >= 48 /\ b <= 57

Max(a, b) == IF a >= b THEN a ELSE b

\* Option<T>: None is the empty sequence, Some(x) the one-element sequence
Nothing == <<>>
Some(x) == <<x>>

\* slice starts_with / str::strip_prefix
StartsWith(s, pre) ==
    /\ Len(s) >= Len(pre)
    /\ \A i \in 1..Len(pre) : s[i] = pre[i]

DropN(s, n) == SubSeq(s, n + 1, Len(s))

(***************************************************************************)
(* Alt-screen parser and mode detector (pty_mode.rs)                       *)
(***************************************************************************)
\* b"?47h", b"?47l", b"?1049h", b"?1049l"
AltSequences ==
    {<<63, 52, 55, 104>>, <<63, 52, 55, 108>>,
     <<63, 49, 48, 52, 57, 104>>, <<63, 49, 48, 52, 57, 108>>}

\* EscapeSequenceParser::new
EscapeSequenceParser_new(buffer_size) ==
    [buffer |-> <<>>, state |-> "Normal",
     max_buffer_size |-> Max(buffer_size, 8)]

is_alt_mode_sequence_any_mode(buffer) == Len(buffer) >= 4

\* EscapeSequenceParser::is_alt_mode_sequence
is_alt_mode_sequence(buffer) ==
    IF Len(buffer) < 4 THEN FALSE
    ELSE SubSeq(buffer, 3, Len(buffer)) \in AltSequences

\* EscapeSequenceParser::reset
EscapeSequenceParser_reset(p) ==
    [p EXCEPT !.state = "Normal", !.buffer = <<>>]

\* one iteration of the loop of EscapeSequenceParser::feed: the parser after
\* the byte and the events pushed for it
EscapeSequenceParser_step(p, byte) ==
    LET pushed == IF Len(p.buffer) < p.max_buffer_size
                  THEN Append(p.buffer, byte) ELSE p.buffer
    IN
    CASE p.state = "Normal" ->
            IF byte = ESC
            THEN [p |-> [p EXCEPT !.state = "Escape", !.buffer = <<byte>>],
                  events |-> <<>>]
            ELSE [p |-> p, events |-> <<>>]
      [] p.state = "Escape" ->
            IF byte = LBRACKET
            THEN [p |-> [p EXCEPT !.state = "Csi", !.buffer = pushed],
                  events |-> <<>>]
            ELSE [p |-> EscapeSequenceParser_reset(p), events |-> <<>>]
      [] p.state = "Csi" ->
            IF byte = QUESTION
            THEN [p |-> [p EXCEPT !.state = "ModeSequence",
                                  !.buffer = pushed],
                  events |-> <<>>]
            ELSE IF is_ascii_digit(byte) \/ byte = SEMICOLON
            THEN [p |-> [p EXCEPT !.buffer = pushed], events |-> <<>>]
            ELSE [p |-> EscapeSequenceParser_reset(p), events |-> <<>>]
      [] OTHER ->
            IF Len(p.buffer) >= p.max_buffer_size
            THEN [p |-> EscapeSequenceParser_reset(p), events |-> <<>>]
            ELSE LET buf == Append(p.buffer, byte) IN
                 IF byte = 104
                 THEN [p |-> EscapeSequenceParser_reset(p),
                       events |-> IF is_alt_mode_sequence(buf)
                                  THEN <<"EnterAltMode">> ELSE <<>>]
                 ELSE IF byte = 108
                 THEN [p |-> EscapeSequenceParser_reset(p),
                       events |-> IF is_alt_mode_sequence(buf)
                                  THEN <<"ExitAltMode">> ELSE <<>>]
                 ELSE IF ~is_ascii_digit(byte)
                 THEN [p |-> EscapeSequenceParser_reset(p),
                       events |-> <<>>]
                 ELSE [p |-> [p EXCEPT !.buffer = buf], events |-> <<>>]

RECURSIVE EscapeSequenceParser_feed_forgets(_, _)
EscapeSequenceParser_feed_forgets(p, data) ==
    IF data = <<>>
    THEN [p |-> EscapeSequenceParser_reset(p), events |-> <<>>]
    ELSE LET r == EscapeSequenceParser_step(p, Head(data))
             rest == EscapeSequenceParser_feed_forgets(r.p, Tail(data))
         IN  [p |-> rest.p, events |-> r.events \o rest.events]

\* EscapeSequenceParser::feed
RECURSIVE EscapeSequenceParser_feed(_, _)
EscapeSequenceParser_feed(p, data) ==
    IF data = <<>> THEN [p |-> p, events |-> <<>>]
    ELSE LET r == EscapeSequenceParser_step(p, Head(data))
             rest == EscapeSequenceParser_feed(r.p, Tail(data))
         IN  [p |-> rest.p, events |-> r.events \o rest.events]

\* ModeDetection::new
ModeDetection_new(config) ==
    [current_mode |-> "Standard",
     parser |-> EscapeSequenceParser_new(config.buffer_size),
     enabled |-> config.enabled]

\* ModeDetection::update_mode
update_mode(md, new_mode) ==
    IF md.current_mode # new_mode
    THEN [md EXCEPT !.current_mode = new_mode]
    ELSE md

RECURSIVE ApplyModeEvents(_, _)
ApplyModeEvents(md, events) ==
    IF events = <<>> THEN md
    ELSE ApplyModeEvents(
            update_mode(md, IF Head(events) = "EnterAltMode"
                            THEN "Alternate" ELSE "Standard"),
            Tail(events))

ModeDetection_feed_nothing(md, data) == md

\* ModeDetection::feed
ModeDetection_feed(md, data) ==
    IF ~md.enabled THEN md
    ELSE LET r == EscapeSequenceParser_feed(md.parser, data)
         IN  ApplyModeEvents([md EXCEPT !.parser = r.p], r.events)

(***************************************************************************)
(* OSC parser and PWD detector (pty_pwd.rs)                                *)
(***************************************************************************)
Cont(b) == b >= 128 /\ b <= 191

\* std::str::from_utf8(..).is_ok()
RECURSIVE Utf8Valid(_)
Utf8Valid(s) ==
    IF s = <<>> THEN TRUE
    ELSE LET b == s[1] n == Len(s) IN
         IF b < 128 THEN Utf8Valid(DropN(s, 1))
         ELSE IF b >= 194 /\ b <= 223
         THEN n >= 2 /\ Cont(s[2]) /\ Utf8Valid(DropN(s, 2))
         ELSE IF b >= 224 /\ b <= 239
         THEN /\ n >= 3
              /\ Cont(s[2])
              /\ Cont(s[3])
              /\ b = 224 => s[2] >= 160
              /\ b = 237 => s[2] <= 159
              /\ Utf8Valid(DropN(s, 3))
         ELSE IF b >= 240 /\ b <= 244
         THEN /\ n >= 4
              /\ Cont(s[2])
              /\ Cont(s[3])
              /\ Cont(s[4])
              /\ b = 240 => s[2] >= 144
              /\ b = 244 => s[2] <= 143
              /\ Utf8Valid(DropN(s, 4))
         ELSE FALSE

\* hex_digit: Some(value) or None
hex_digit(b) ==
    IF b >= 48 /\ b <= 57 THEN Some(b - 48)
    ELSE IF b >= 97 /\ b <= 102 THEN Some(b - 97 + 10)
    ELSE IF b >= 65 /\ b <= 70 THEN Some(b - 65 + 10)
    ELSE Nothing

\* decode_hex_pair: hi << 4 | lo
decode_hex_pair(hi, lo) ==
    IF hex_digit(hi) = Nothing \/ hex_digit(lo) = Nothing THEN Nothing
    ELSE Some(hex_digit(hi)[1] * 16 + hex_digit(lo)[1])

\* the while loop of percent_decode from index i (1-based)
RECURSIVE percent_decode_from(_, _)
percent_decode_from(bytes, i) ==
    IF i > Len(bytes) THEN <<>>
    ELSE IF /\ bytes[i] = PERCENT
            /\ i + 2 <= Len(bytes)
            /\ decode_hex_pair(bytes[i + 1], bytes[i + 2]) # Nothing
         THEN <<decode_hex_pair(bytes[i + 1], bytes[i + 2])[1]>>
                 \o percent_decode_from(bytes, i + 3)
         ELSE <<bytes[i]>> \o percent_decode_from(bytes, i + 1)

\* percent_decode
percent_decode(input) ==
    LET result == percent_decode_from(input, 1)
    IN  IF Utf8Valid(result) THEN result ELSE input

\* "7;"
Osc7Prefix == <<55, 59>>
\* "633;P;Cwd="
Osc633Prefix == <<54, 51, 51, 59, 80, 59, 67, 119, 100, 61>>
\* "file://"
FilePrefix == <<102, 105, 108, 101, 58, 47, 47>>

\* str::find('/'): the 1-based index of the first '/', 0 if there is none
RECURSIVE FindSlash(_, _)
FindSlash(s, i) ==
    IF i > Len(s) THEN 0
    ELSE IF s[i] = SLASH THEN i
    ELSE FindSlash(s, i + 1)

parse_osc7_url_keeps_host(url) ==
    IF ~StartsWith(url, FilePrefix) THEN Nothing
    ELSE LET decoded == percent_decode(DropN(url, Len(FilePrefix)))
         IN  IF decoded # <<>> THEN Some(decoded) ELSE Nothing

\* OscParser::parse_osc7_url
parse_osc7_url(url) ==
    IF ~StartsWith(url, FilePrefix) THEN Nothing
    ELSE LET rest == DropN(url, Len(FilePrefix))
             path_start == FindSlash(rest, 1)
         IN  IF path_start = 0 THEN Nothing
             ELSE LET decoded == percent_decode(DropN(rest, path_start - 1))
                  IN  IF decoded # <<>> THEN Some(decoded) ELSE Nothing

\* OscParser::process_osc_payload
process_osc_payload(buffer) ==
    IF ~Utf8Valid(buffer) THEN Nothing
    ELSE IF StartsWith(buffer, Osc7Prefix)
    THEN parse_osc7_url(DropN(buffer, Len(Osc7Prefix)))
    ELSE IF StartsWith(buffer, Osc633Prefix)
    THEN LET decoded == percent_decode(DropN(buffer, Len(Osc633Prefix)))
         IN  IF decoded # <<>> THEN Some(decoded) ELSE Nothing
    ELSE Nothing

\* OscParser::new
OscParser_new(buffer_size) ==
    [buffer |-> <<>>, state |-> "Normal",
     max_buffer_size |-> Max(buffer_size, 64)]

\* OscParser::reset
OscParser_reset(p) == [p EXCEPT !.state = "Normal", !.buffer = <<>>]

\* one iteration of the loop of OscParser::feed: the parser after the byte
\* and the paths pushed for it
OscParser_step(p, byte) ==
    CASE p.state = "Normal" ->
            IF byte = ESC
            THEN [p |-> [p EXCEPT !.state = "Escape"], paths |-> <<>>]
            ELSE [p |-> p, paths |-> <<>>]
      [] p.state = "Escape" ->
            IF byte = RBRACKET
            THEN [p |-> [p EXCEPT !.state = "Osc", !.buffer = <<>>],
                  paths |-> <<>>]
            ELSE [p |-> [p EXCEPT !.state = "Normal"], paths |-> <<>>]
      [] p.state = "Osc" ->
            IF byte = BEL
            THEN [p |-> OscParser_reset(p),
                  paths |-> process_osc_payload(p.buffer)]
            ELSE IF byte = ESC
            THEN [p |-> [p EXCEPT !.state = "OscEscape"], paths |-> <<>>]
            ELSE IF Len(p.buffer) < p.max_buffer_size
            THEN [p |-> [p EXCEPT !.buffer = Append(@, byte)],
                  paths |-> <<>>]
            ELSE [p |-> OscParser_reset(p), paths |-> <<>>]
      [] OTHER ->
            IF byte = BACKSLASH
            THEN [p |-> OscParser_reset(p),
                  paths |-> process_osc_payload(p.buffer)]
            ELSE IF byte = RBRACKET
            THEN [p |-> [p EXCEPT !.state = "Osc", !.buffer = <<>>],
                  paths |-> <<>>]
            ELSE IF byte = ESC
            THEN [p |-> [p EXCEPT !.state = "Escape", !.buffer = <<>>],
                  paths |-> <<>>]
            ELSE [p |-> OscParser_reset(p), paths |-> <<>>]

RECURSIVE OscParser_feed_forgets(_, _)
OscParser_feed_forgets(p, data) ==
    IF data = <<>> THEN [p |-> OscParser_reset(p), paths |-> <<>>]
    ELSE LET r == OscParser_step(p, Head(data))
             rest == OscParser_feed_forgets(r.p, Tail(data))
         IN  [p |-> rest.p, paths |-> r.paths \o rest.paths]

\* OscParser::feed
RECURSIVE OscParser_feed(_, _)
OscParser_feed(p, data) ==
    IF data = <<>> THEN [p |-> p, paths |-> <<>>]
    ELSE LET r == OscParser_step(p, Head(data))
             rest == OscParser_feed(r.p, Tail(data))
         IN  [p |-> rest.p, paths |-> r.paths \o rest.paths]

\* PwdDetection::new
PwdDetection_new(config) ==
    [current_pwd |-> Nothing,
     parser |-> OscParser_new(config.buffer_size),
     enabled |-> config.enabled]

\* PwdDetection::update_pwd
update_pwd(pd, new_pwd) ==
    LET changed == IF pd.current_pwd # Nothing
                   THEN pd.current_pwd[1] # new_pwd
                   ELSE TRUE
    IN  IF changed THEN [pd EXCEPT !.current_pwd = Some(new_pwd)] ELSE pd

RECURSIVE ApplyPaths(_, _)
ApplyPaths(pd, paths) ==
    IF paths = <<>> THEN pd
    ELSE ApplyPaths(update_pwd(pd, Head(paths)), Tail(paths))

\* PwdDetection::feed
PwdDetection_feed(pd, data) ==
    IF ~pd.enabled THEN pd
    ELSE LET r == OscParser_feed(pd.parser, data)
         IN  ApplyPaths([pd EXCEPT !.parser = r.p], r.paths)

(***************************************************************************)
(* PTY I/O actor and PTY handle (lib.rs)                                   *)
(***************************************************************************)
\* ESC [ ? 4 7 h
EnterAltBytes == <<27, 91, 63, 52, 55, 104>>
\* ESC [ ? 4 7 l  ESC ] 7 ; f i l e : / / / a BEL
ExitAltPwdBytes ==
    <<27, 91, 63, 52, 55, 108,
      27, 93, 55, 59, 102, 105, 108, 101, 58, 47, 47, 47, 97, 7>>

DataPayloads == {EnterAltBytes, ExitAltPwdBytes}

\* ChannelMsg as one record; a field the kind does not have is empty
ChannelMsg(kind, data, exit_status, signal_name) ==
    [kind |-> kind, data |-> data, exit_status |-> exit_status,
     signal_name |-> signal_name, core_dumped |-> signal_name # "",
     error_message |-> IF signal_name # "" THEN "killed" ELSE ""]

\* the messages the remote may send before the channel ends
RemoteMsgs ==
    {ChannelMsg("Data", d, 0, "") : d \in DataPayloads}
    \cup {ChannelMsg("ExitStatus", <<>>, c, "") : c \in {3}}
    \cup {ChannelMsg("ExitSignal", <<>>, 0, "TERM"),
          ChannelMsg("Eof", <<>>, 0, "")}

\* channel.wait() returning None
ChannelEnd == ChannelMsg("None", <<>>, 0, "")

\* PtyExitStatus as one record
PtyExitStatus(kind, code, signal_name, core_dumped, error_message) ==
    [kind |-> kind, code |-> code, signal_name |-> signal_name,
     core_dumped |-> core_dumped, error_message |-> error_message]

BreakStatus_code_lost(msg) ==
    IF msg.kind = "ExitSignal"
    THEN PtyExitStatus("Signal", 0, msg.signal_name, msg.core_dumped,
                       msg.error_message)
    ELSE PtyExitStatus("ChannelClosed", 0, "", FALSE, "")

\* the value of the `break` in the main loop of pty_io_task
BreakStatus(msg) ==
    IF msg.kind = "ExitStatus"
    THEN PtyExitStatus("Code", msg.exit_status, "", FALSE, "")
    ELSE IF msg.kind = "ExitSignal"
    THEN PtyExitStatus("Signal", 0, msg.signal_name, msg.core_dumped,
                       msg.error_message)
    ELSE PtyExitStatus("ChannelClosed", 0, "", FALSE, "")

\* what pty_io_task sends on the channel
ToRemote(kind, data, cols, rows) ==
    [kind |-> kind, data |-> data, cols |-> cols, rows |-> rows]

\* ModeDetectionConfig::default() / PwdDetectionConfig::default()
ModeBufferSize == 256
PwdBufferSize == 2048

\* PtyBuilder::with_mode_detection / with_mode_detection_config and
\* with_pwd_detection / with_pwd_detection_config: the detectors open() makes
PtyConfigs ==
    {[mode |-> Nothing, pwd |-> Nothing],
     [mode |-> Some(ModeDetection_new(
                       [enabled |-> TRUE, buffer_size |-> ModeBufferSize])),
      pwd |-> Some(PwdDetection_new(
                       [enabled |-> TRUE, buffer_size |-> PwdBufferSize]))]}

\* the state PtyBuilder::open returns in: the task spawned, the queues empty
OpenedPty ==
    /\ pc = "main"
    /\ status = <<>>
    /\ held = <<>>
    /\ inputQ = <<>>
    /\ outputQ = <<>>
    /\ resizeQ = <<>>
    /\ toRemote = <<>>
    /\ exitSlot = <<>>
    /\ handle = "open"
    /\ closed = FALSE
    /\ \E cfg \in PtyConfigs :
         /\ modeDet = cfg.mode
         /\ pwdDet = cfg.pwd
    /\ clock = [drain |-> 0, sleep |-> 0]
    /\ recvLog = <<>>
    /\ readLog = [batches |-> <<>>, eos |-> FALSE]
    /\ callLog = [write |-> <<>>, resize |-> <<>>]
    /\ waitResult = <<>>

InitPty == FreshBuilder /\ OpenedPty /\ Idle({})

\* the task has returned: its receivers, its output sender and its channel
\* are dropped
TaskEnded == pc \in {"done", "failed", "aborted"}

NumCalls(op) == Len(callLog[op])

\* the inputs the session has had so far
EnvSteps == Len(recvLog) + NumCalls("write") + NumCalls("resize")

\* the channel has ended: channel.wait() has returned None
ChannelEnded == \E i \in 1..Len(recvLog) : recvLog[i].kind = "None"

\* what channel.wait() may return next: a message the remote sends, or None
\* when the channel ends; once it has ended, None again
Incoming ==
    IF ChannelEnded THEN {ChannelEnd}
    ELSE IF Len(recvLog) < MaxRemoteMsgs /\ EnvSteps < MaxEnvSteps
    THEN RemoteMsgs \cup {ChannelEnd}
    ELSE {ChannelEnd}

\* `if let Some(md) = mode_detection { md.feed(data) }`
FeedMode(det, data) ==
    IF det = Nothing THEN det ELSE Some(ModeDetection_feed(det[1], data))

\* `if let Some(pd) = pwd_detection { pd.feed(data) }`
FeedPwd(det, data) ==
    IF det = Nothing THEN det ELSE Some(PwdDetection_feed(det[1], data))

output_send_lost(q, data) == q

\* output_tx.send(data.to_vec()) once the queue has room
output_send(q, data) == Append(q, data)

NumEofs == Cardinality({i \in 1..Len(toRemote) : toRemote[i].kind = "Eof"})

\* the PtyHandle's ends of the three queues are gone while the task still
\* runs: the handle is being dropped and the abort has not reached the task
Detached == handle = "detached"

after_send_checked(next, receiver_alive) ==
    IF receiver_alive THEN next ELSE "failed"

\* `let _ = output_tx.send(..).await`: the loop goes on whether or not the
\* send found a receiver
after_send(next, receiver_alive) == next

\* select arm `res = input_rx.recv()`, Some(data): channel.data(..).await?
ActorInput ==
    /\ pc = "main"
    /\ inputQ # <<>>
    /\ inputQ' = Tail(inputQ)
    /\ \E ok \in BOOLEAN :
         IF ok
         THEN /\ toRemote' =
                   Append(toRemote, ToRemote("Data", Head(inputQ), 0, 0))
              /\ pc' = pc
         ELSE /\ toRemote' = toRemote
              /\ pc' = "failed"
    /\ UNCHANGED <<sessVars, moreVars, status, held, outputQ, resizeQ,
                   exitSlot, handle, closed, modeDet, pwdDet, clock,
                   recvLog, readLog, callLog, waitResult>>

\* select arm `res = input_rx.recv()`, None: every sender is gone and the
\* queue is empty; channel.eof().await?
ActorInputEof ==
    /\ pc = "main"
    /\ inputQ = <<>>
    /\ closed \/ Detached
    /\ NumEofs < MaxEofs
    /\ \E ok \in BOOLEAN :
         IF ok
         THEN /\ toRemote' = Append(toRemote, ToRemote("Eof", <<>>, 0, 0))
              /\ pc' = pc
         ELSE /\ toRemote' = toRemote
              /\ pc' = "failed"
    /\ UNCHANGED <<sessVars, moreVars, status, held, inputQ, outputQ,
                   resizeQ, exitSlot, handle, closed, modeDet, pwdDet,
                   clock, recvLog, readLog, callLog, waitResult>>

\* select arm `msg = channel.wait()` of the main loop, up to the await of the
\* send to the output queue
ActorRecv ==
    /\ pc = "main"
    /\ \E msg \in Incoming :
       /\ recvLog' = Append(recvLog, msg)
       /\ IF msg.kind = "Data"
          THEN /\ modeDet' = FeedMode(modeDet, msg.data)
               /\ pwdDet' = FeedPwd(pwdDet, msg.data)
               /\ held' = Some(msg.data)
               /\ pc' = "send"
               /\ UNCHANGED outputQ
               /\ UNCHANGED <<status, clock>>
          ELSE IF msg.kind \in {"ExitStatus", "ExitSignal", "None"}
          THEN /\ status' = Some(BreakStatus(msg))
               /\ pc' = "drain"
               /\ clock' = [drain |-> 0, sleep |-> 0]
               /\ UNCHANGED <<modeDet, pwdDet, held, outputQ>>
          ELSE UNCHANGED <<modeDet, pwdDet, held, pc, status, clock,
                           outputQ>>
    /\ UNCHANGED <<sessVars, moreVars, inputQ, resizeQ, toRemote, exitSlot, handle,
                   closed, readLog, callLog, waitResult>>

\* `let _ = output_tx.send(data.to_vec()).await` of the main loop: completes
\* when the queue has room, or at once with an error when the receiver is
\* gone
ActorSend ==
    /\ pc = "send"
    /\ Detached \/ Len(outputQ) < OutputCap
    /\ outputQ' = IF Detached THEN outputQ ELSE output_send(outputQ, held[1])
    /\ held' = <<>>
    /\ pc' = after_send("main", ~Detached)
    /\ UNCHANGED <<sessVars, moreVars, status, inputQ, resizeQ, toRemote,
                   exitSlot, handle, closed, modeDet, pwdDet, clock,
                   recvLog, readLog, callLog, waitResult>>

\* select arm `Some((cols, rows)) = resize_rx.recv()`: window_change, its
\* error ignored
ActorResize ==
    /\ pc = "main"
    /\ resizeQ # <<>>
    /\ resizeQ' = Tail(resizeQ)
    /\ \E ok \in BOOLEAN :
         toRemote' =
            IF ok
            THEN Append(toRemote, ToRemote("WindowChange", <<>>,
                                           Head(resizeQ)[1],
                                           Head(resizeQ)[2]))
            ELSE toRemote
    /\ UNCHANGED <<sessVars, moreVars, pc, status, held, inputQ, outputQ,
                   exitSlot, handle, closed, modeDet, pwdDet, clock,
                   recvLog, readLog, callLog, waitResult>>

\* tokio::time::sleep(Duration::from_secs(1)) in drain_remaining_output
DrainSeconds == 1
DrainTimeoutTicks == DrainSeconds * TicksPerSecond
MaxClock == DrainTimeoutTicks + ClockSlack

\* the end of pty_io_task: exit_tx.send(Some(status)), Ok(status)
Finish ==
    /\ exitSlot' = status
    /\ pc' = "done"

\* select arm `msg = channel.wait()` of drain_remaining_output: Data is fed
\* and forwarded, anything else (or the channel end) ends the drain
ActorDrainRecv ==
    /\ pc = "drain"
    /\ \E msg \in Incoming :
       /\ recvLog' = Append(recvLog, msg)
       /\ IF msg.kind = "Data"
          THEN /\ modeDet' = FeedMode(modeDet, msg.data)
               /\ pwdDet' = FeedPwd(pwdDet, msg.data)
               /\ held' = Some(msg.data)
               /\ pc' = "drainsend"
               /\ UNCHANGED outputQ
               /\ clock' = [clock EXCEPT !.sleep = 0]
               /\ UNCHANGED exitSlot
          ELSE /\ Finish
               /\ UNCHANGED <<modeDet, pwdDet, held, clock, outputQ>>
    /\ UNCHANGED <<sessVars, moreVars, status, inputQ, resizeQ, toRemote, handle,
                   closed, readLog, callLog, waitResult>>

\* `let _ = output_tx.send(data.to_vec()).await` of the drain loop; the next
\* iteration of the loop creates a new sleep
ActorDrainSend ==
    /\ pc = "drainsend"
    /\ Detached \/ Len(outputQ) < OutputCap
    /\ outputQ' = IF Detached THEN outputQ ELSE output_send(outputQ, held[1])
    /\ held' = <<>>
    /\ pc' = after_send("drain", ~Detached)
    /\ clock' = [clock EXCEPT !.sleep = 0]
    /\ UNCHANGED <<sessVars, moreVars, status, inputQ, resizeQ, toRemote,
                   exitSlot, handle, closed, modeDet, pwdDet, recvLog,
                   readLog, callLog, waitResult>>

\* select arm `_ = tokio::time::sleep(Duration::from_secs(1))`
ActorDrainTimeout ==
    /\ pc = "drain"
    /\ clock.sleep >= DrainTimeoutTicks
    /\ Finish
    /\ UNCHANGED <<sessVars, moreVars, status, held, inputQ, outputQ,
                   resizeQ, toRemote, handle, closed, modeDet, pwdDet, clock,
                   recvLog, readLog, callLog, waitResult>>

\* time passes during the drain phase; a sleep that has expired is served
\* before more time passes, and so is a send to a queue that has room
Tick ==
    /\ pc \in {"drain", "drainsend"}
    /\ clock.drain < MaxClock
    /\ pc = "drain" => clock.sleep < DrainTimeoutTicks
    /\ pc = "drainsend" => Len(outputQ) >= OutputCap
    /\ clock' = [drain |-> clock.drain + 1,
                 sleep |-> IF pc = "drain" THEN clock.sleep + 1 ELSE 0]
    /\ UNCHANGED <<sessVars, moreVars, pc, status, held, inputQ, outputQ,
                   resizeQ, toRemote, exitSlot, handle, closed, modeDet,
                   pwdDet, recvLog, readLog, callLog, waitResult>>

input_send_fails_open == TaskEnded

\* input_tx.send(..) fails: input_rx is dropped with the task, and close()
\* replaces input_tx by the sender of a channel whose receiver is dropped
input_send_fails == closed \/ TaskEnded

\* resize_tx.send(..) fails: resize_rx is dropped with the task
resize_send_fails == TaskEnded

\* PtyHandle::write; the k-th call writes the byte 96 + k
Write ==
    /\ handle = "open"
    /\ NumCalls("write") < MaxWrites
    /\ EnvSteps < MaxEnvSteps
    /\ LET data == <<96 + NumCalls("write") + 1>> IN
       IF input_send_fails
       THEN /\ inputQ' = inputQ
            /\ callLog' = [callLog EXCEPT
                  !.write = Append(@, "PTY input channel closed")]
       ELSE /\ Len(inputQ) < InputCap
            /\ inputQ' = Append(inputQ, data)
            /\ callLog' = [callLog EXCEPT !.write = Append(@, "Ok")]
    /\ UNCHANGED <<sessVars, moreVars, pc, status, held, outputQ,
                   resizeQ, toRemote, exitSlot, handle, closed, modeDet,
                   pwdDet, clock, recvLog, readLog, waitResult>>

\* PtyHandle::resize
Resize ==
    /\ handle = "open"
    /\ NumCalls("resize") < MaxResizes
    /\ EnvSteps < MaxEnvSteps
    /\ LET dims == <<80 + NumCalls("resize"), 24>> IN
       IF resize_send_fails
       THEN /\ resizeQ' = resizeQ
            /\ callLog' = [callLog EXCEPT
                  !.resize = Append(@, "PTY resize channel closed")]
       ELSE /\ Len(resizeQ) < ResizeCap
            /\ resizeQ' = Append(resizeQ, dims)
            /\ callLog' = [callLog EXCEPT !.resize = Append(@, "Ok")]
    /\ UNCHANGED <<sessVars, moreVars, pc, status, held, inputQ, outputQ,
                   toRemote, exitSlot, handle, closed, modeDet, pwdDet,
                   clock, recvLog, readLog, waitResult>>

\* PtyHandle::read: the next batch, or None once output_tx is dropped and the
\* queue is empty
Read ==
    /\ handle = "open"
    /\ IF outputQ # <<>>
       THEN /\ outputQ' = Tail(outputQ)
            /\ readLog' = [readLog EXCEPT
                              !.batches = Append(@, Head(outputQ))]
       ELSE /\ TaskEnded
            /\ ~readLog.eos
            /\ outputQ' = outputQ
            /\ readLog' = [readLog EXCEPT !.eos = TRUE]
    /\ UNCHANGED <<sessVars, moreVars, pc, status, held, inputQ, resizeQ,
                   toRemote, exitSlot, handle, closed, modeDet, pwdDet,
                   clock, recvLog, callLog, waitResult>>

\* PtyHandle::close
CloseInput ==
    /\ handle = "open"
    /\ ~closed
    /\ closed' = TRUE
    /\ UNCHANGED <<sessVars, moreVars, pc, status, held, inputQ, outputQ,
                   resizeQ, toRemote, exitSlot, handle, modeDet, pwdDet,
                   clock, recvLog, readLog, callLog, waitResult>>

\* PtyHandle::try_wait
try_wait == exitSlot

\* PtyHandle::wait takes task_handle and awaits it
WaitStart ==
    /\ handle = "open"
    /\ handle' = "waiting"
    /\ UNCHANGED <<sessVars, moreVars, pc, status, held, inputQ, outputQ,
                   resizeQ, toRemote, exitSlot, closed, modeDet, pwdDet,
                   clock, recvLog, readLog, callLog, waitResult>>

\* the awaited task has returned; the handle is dropped with task_handle
\* taken
WaitReturn ==
    /\ handle = "waiting"
    /\ pc \in {"done", "failed"}
    /\ handle' = "waited"
    /\ waitResult' =
          IF pc = "done"
          THEN Some([ok |-> TRUE, status |-> status[1]])
          ELSE Some([ok |-> FALSE,
                     status |-> PtyExitStatus("Err", 0, "", FALSE, "")])
    /\ UNCHANGED <<sessVars, moreVars, pc, status, held, inputQ, outputQ,
                   resizeQ, toRemote, exitSlot, closed, modeDet, pwdDet,
                   clock, recvLog, readLog, callLog>>

drop_detach(p) == p

\* impl Drop for PtyHandle: task_handle.take() is Some, handle.abort(); a
\* task that has returned is not changed by abort
drop(p) == IF p \in {"done", "failed"} THEN p ELSE "aborted"

\* the PtyHandle is dropped without wait()
Drop ==
    /\ handle = "open"
    /\ handle' = "dropped"
    /\ pc' = drop(pc)
    /\ UNCHANGED <<sessVars, moreVars, status, held, inputQ, outputQ,
                   resizeQ, toRemote, exitSlot, closed, modeDet, pwdDet,
                   clock, recvLog, readLog, callLog, waitResult>>

\* the task runs on after the handle went away: what was written and resized
\* before is still queued, the output queue has lost its receiver
InitActor ==
    /\ FreshBuilder /\ Idle({})
    /\ pc = "main" /\ status = <<>> /\ held = <<>>
    /\ inputQ \in {<<>>, << <<97>> >>}
    /\ resizeQ \in {<<>>, << <<80, 24>> >>}
    /\ outputQ = <<>> /\ toRemote = <<>>
    /\ exitSlot = <<>> /\ handle = "detached"
    /\ closed \in BOOLEAN
    /\ \E cfg \in PtyConfigs :
         /\ modeDet = cfg.mode
         /\ pwdDet = cfg.pwd
    /\ clock = [drain |-> 0, sleep |-> 0]
    /\ recvLog = <<>>
    /\ readLog = [batches |-> <<>>, eos |-> FALSE]
    /\ callLog = [write |-> <<>>, resize |-> <<>>]
    /\ waitResult = <<>>

NextActor ==
    \/ ActorInput
    \/ ActorInputEof
    \/ ActorRecv
    \/ ActorSend
    \/ ActorResize
    \/ ActorDrainRecv
    \/ ActorDrainSend
    \/ ActorDrainTimeout
    \/ Tick

SpecActor == InitActor /\ [][NextActor]_vars

NextPty ==
    \/ ActorInput
    \/ ActorInputEof
    \/ ActorRecv
    \/ ActorSend
    \/ ActorResize
    \/ ActorDrainRecv
    \/ ActorDrainSend
    \/ ActorDrainTimeout
    \/ Tick
    \/ Write
    \/ Resize
    \/ Read
    \/ CloseInput
    \/ WaitStart
    \/ WaitReturn
    \/ Drop

SpecPty == InitPty /\ [][NextPty]_vars

(***************************************************************************)
(* The terminal-restoring panic hook (lib.rs, setup_panic_hook)            *)
(***************************************************************************)
once_always_new(h) == h.once # "running"

\* Once::call_once runs its closure when no call has started it yet
once_is_new(h) == h.once = "new"

\* panic::take_hook(): the standard hook is registered in its place
take_hook(h) == [h EXCEPT !.current = "default"]

\* *guard = Some(prev_hook)
store_prev(h, taken) ==
    [h EXCEPT !.prev = <<taken>>, !.stores = @ + 1]

\* panic::set_hook(the restoring closure); the closure of call_once returns
set_hook(h) ==
    [h EXCEPT !.current = "restoring", !.installs = @ + 1, !.once = "done"]

\* setup_panic_hook called with no other caller running
setup_panic_hook(h) ==
    IF once_is_new(h)
    THEN set_hook(store_prev(take_hook(h), h.current))
    ELSE h

\* what a panic runs: the restoring hook does terminal_cleanup() and then
\* calls the stored previous hook
panic_runs(h) ==
    IF h.current = "restoring"
    THEN <<"terminal_cleanup">> \o h.prev
    ELSE <<h.current>>

\* a thread calls setup_panic_hook: it starts the closure, or returns at once
\* when the closure has completed; while another thread runs the closure,
\* call_once blocks
HookEnter(t) ==
    /\ threads[t].pc = "idle"
    /\ threads[t].calls < MaxHookCalls
    /\ hook.once # "running" \/ once_is_new(hook)
    /\ IF once_is_new(hook)
       THEN /\ hook' = [hook EXCEPT !.once = "running"]
            /\ threads' = [threads EXCEPT ![t].pc = "take",
                                          ![t].calls = @ + 1]
       ELSE /\ hook' = hook
            /\ threads' = [threads EXCEPT ![t].calls = @ + 1]
    /\ UNCHANGED <<sessVars, execVars, detVars, ptyVars, runVars, scpVars, histVars>>

\* let prev_hook = panic::take_hook()
HookTake(t) ==
    /\ threads[t].pc = "take"
    /\ hook' = take_hook(hook)
    /\ threads' = [threads EXCEPT ![t].pc = "store",
                                  ![t].taken = hook.current]
    /\ UNCHANGED <<sessVars, execVars, detVars, ptyVars, runVars, scpVars, histVars>>

\* if let Ok(mut guard) = PREV_PANIC_HOOK.lock() { *guard = Some(prev_hook) }
HookStore(t) ==
    /\ threads[t].pc = "store"
    /\ hook' = store_prev(hook, threads[t].taken)
    /\ threads' = [threads EXCEPT ![t].pc = "set", ![t].taken = ""]
    /\ UNCHANGED <<sessVars, execVars, detVars, ptyVars, runVars, scpVars, histVars>>

\* panic::set_hook(..) and the end of the closure
HookSet(t) ==
    /\ threads[t].pc = "set"
    /\ hook' = set_hook(hook)
    /\ threads' = [threads EXCEPT ![t].pc = "idle"]
    /\ UNCHANGED <<sessVars, execVars, detVars, ptyVars, runVars, scpVars, histVars>>

\* a thread that is not inside the closure panics
Panic ==
    /\ hook.panics < MaxPanics
    /\ hook' = [hook EXCEPT !.panics = @ + 1, !.log = panic_runs(hook)]
    /\ UNCHANGED <<sessVars, execVars, detVars, ptyVars, runVars, scpVars, histVars, threads>>

InitHook ==
    /\ FreshBuilder
    /\ NoPty
    /\ \E h \in InitialHooks : hook = FreshHook(h)
    /\ threads = IdleThreads
    /\ Idle({"hook"})

NextHook ==
    \/ \E t \in Threads : HookEnter(t)
    \/ \E t \in Threads : HookTake(t)
    \/ \E t \in Threads : HookStore(t)
    \/ \E t \in Threads : HookSet(t)
    \/ Panic

SpecHook == InitHook /\ [][NextHook]_vars

(***************************************************************************)
(* The interactive runner (lib.rs, PtyBuilder::run)                        *)
(***************************************************************************)
code_of_any(st) == <<st.code>>

\* PtyExitStatus::code
code(st) == IF st.kind = "Code" THEN <<st.code>> ELSE <<>>

\* Option::unwrap_or
unwrap_or(opt, default) == IF opt = <<>> THEN default ELSE opt[1]

RunResult(ok, value, err) == [ok |-> ok, value |-> value, err |-> err]

\* write_reset_sequences(&mut stdout, raw_mode); drop(_raw_guard);
\* clear_stdin_buffer()
restore_terminal(r) ==
    [r EXCEPT !.term = @ \o (IF r.raw_mode THEN <<"reset", "raw_off">>
                             ELSE <<>>) \o <<"drain">>,
              !.raw = FALSE]

\* the locals of run() are dropped by a return: RawGuard::drop disables raw
\* mode when the guard is Some
drop_locals(r) ==
    [r EXCEPT !.term = @ \o (IF r.raw THEN <<"raw_off">> ELSE <<>>),
              !.raw = FALSE]

\* `return Err(..)` after the explicit restore
return_restored(r, err) ==
    [restore_terminal(r) EXCEPT !.pc = "returned",
                                !.result = <<RunResult(FALSE, 0, err)>>]

\* `?` on an error: the function returns and its locals are dropped
return_early(r, err) ==
    [drop_locals(r) EXCEPT !.pc = "returned",
                           !.result = <<RunResult(FALSE, 0, err)>>]

\* the PtyHandle local is dropped by an early return
HandleDropped ==
    /\ handle' = "dropped"
    /\ pc' = drop(pc)

\* raw_mode: setup_panic_hook(); enable_raw_mode()?; Some(RawGuard)
RunSetup ==
    /\ run.pc = "setup"
    /\ IF run.raw_mode
       THEN /\ hook' = setup_panic_hook(hook)
            /\ \E ok \in BOOLEAN :
                 IF ok
                 THEN /\ run' = [run EXCEPT !.pc = "winch", !.raw = TRUE,
                                            !.term = Append(@, "raw_on")]
                      /\ UNCHANGED <<handle, pc>>
                 ELSE /\ run' = return_early(run, "enable_raw_mode")
                      /\ HandleDropped
       ELSE /\ run' = [run EXCEPT !.pc = "winch"]
            /\ UNCHANGED <<hook, handle, pc>>
    /\ UNCHANGED <<sessVars, execVars, detVars, threads, scpVars, histVars, status, held, inputQ, outputQ, resizeQ,
                   toRemote, exitSlot, closed, modeDet, pwdDet, clock,
                   recvLog, readLog, callLog, waitResult>>

\* auto_resize: signal(SignalKind::window_change())?
RunWinch ==
    /\ run.pc = "winch"
    /\ IF run.auto_resize
       THEN \E ok \in BOOLEAN :
              IF ok
              THEN /\ run' = [run EXCEPT !.pc = "loop"]
                   /\ UNCHANGED <<handle, pc>>
              ELSE /\ run' = return_early(run, "signal")
                   /\ HandleDropped
       ELSE /\ run' = [run EXCEPT !.pc = "loop"]
            /\ UNCHANGED <<handle, pc>>
    /\ UNCHANGED <<sessVars, execVars, detVars, hookVars, histVars, scpVars, status, held, inputQ, outputQ,
                   resizeQ, toRemote, exitSlot, closed, modeDet, pwdDet,
                   clock, recvLog, readLog, callLog, waitResult>>

\* handle.write(&buf[..n]).await once it does not suspend: Err restores the
\* terminal and returns, Ok goes back to the select
RunWriteEnds ==
    LET data == <<96 + NumCalls("write") + 1>> IN
    IF input_send_fails
    THEN /\ callLog' = [callLog EXCEPT
               !.write = Append(@, "PTY input channel closed")]
         /\ run' = return_restored(run, "PTY input channel closed")
         /\ HandleDropped
         /\ UNCHANGED inputQ
    ELSE /\ Len(inputQ) < InputCap
         /\ inputQ' = Append(inputQ, data)
         /\ callLog' = [callLog EXCEPT !.write = Append(@, "Ok")]
         /\ run' = [run EXCEPT !.pc = "loop"]
         /\ UNCHANGED <<handle, pc>>

\* select arm `r = stdin.read(&mut buf), if !stdin_closed`
RunStdin ==
    /\ run.pc = "loop"
    /\ ~run.stdin_closed
    /\ \E r \in {"eof", "data", "err"} :
         CASE r = "eof" ->
                /\ run' = [run EXCEPT !.stdin_closed = TRUE]
                /\ closed' = TRUE
                /\ UNCHANGED <<handle, pc, inputQ, callLog>>
           [] r = "data" ->
                /\ NumCalls("write") < MaxWrites
                /\ EnvSteps < MaxEnvSteps
                /\ IF input_send_fails \/ Len(inputQ) < InputCap
                   THEN RunWriteEnds
                   ELSE /\ run' = [run EXCEPT !.pc = "write"]
                        /\ UNCHANGED <<handle, pc, inputQ, callLog>>
                /\ UNCHANGED closed
           [] r = "err" ->
                /\ run' = return_restored(run, "stdin")
                /\ HandleDropped
                /\ UNCHANGED <<closed, inputQ, callLog>>
    /\ UNCHANGED <<sessVars, execVars, detVars, hookVars, histVars, scpVars, status, held, outputQ, resizeQ,
                   toRemote, exitSlot, modeDet, pwdDet, clock, recvLog,
                   readLog, waitResult>>

\* handle.write(..).await resumed: the input queue has room again, or its
\* receiver is gone
RunWriteResume ==
    /\ run.pc = "write"
    /\ RunWriteEnds
    /\ UNCHANGED <<sessVars, execVars, detVars, hookVars, histVars, scpVars, status, held, outputQ, resizeQ,
                   toRemote, exitSlot, closed, modeDet, pwdDet, clock,
                   recvLog, readLog, waitResult>>

\* select arm `data = handle.read()`: Some(bytes) is written to stdout and
\* flushed, both with `?`; None goes on to handle.wait()
RunRead ==
    /\ run.pc = "loop"
    /\ IF outputQ # <<>>
       THEN /\ outputQ' = Tail(outputQ)
            /\ readLog' = [readLog EXCEPT
                              !.batches = Append(@, Head(outputQ))]
            /\ \E ok \in BOOLEAN :
                 IF ok
                 THEN /\ run' = run
                      /\ UNCHANGED <<handle, pc>>
                 ELSE /\ run' = return_early(run, "stdout")
                      /\ HandleDropped
       ELSE /\ TaskEnded
            /\ outputQ' = outputQ
            /\ readLog' = [readLog EXCEPT !.eos = TRUE]
            /\ run' = [run EXCEPT !.pc = "wait"]
            /\ handle' = "waiting"
            /\ pc' = pc
    /\ UNCHANGED <<sessVars, execVars, detVars, hookVars, histVars, scpVars, status, held, inputQ, resizeQ,
                   toRemote, exitSlot, closed, modeDet, pwdDet, clock,
                   recvLog, callLog, waitResult>>

\* handle.resize(w, h).await once it does not suspend; its error is ignored
RunResizeEnds ==
    LET dims == <<80 + NumCalls("resize"), 24>> IN
    /\ IF resize_send_fails
       THEN /\ resizeQ' = resizeQ
            /\ callLog' = [callLog EXCEPT
                  !.resize = Append(@, "PTY resize channel closed")]
       ELSE /\ Len(resizeQ) < ResizeCap
            /\ resizeQ' = Append(resizeQ, dims)
            /\ callLog' = [callLog EXCEPT !.resize = Append(@, "Ok")]
    /\ run' = [run EXCEPT !.pc = "loop"]

\* select arm of the window-change signal, if auto_resize
RunResize ==
    /\ run.pc = "loop"
    /\ run.auto_resize
    /\ NumCalls("resize") < MaxResizes
    /\ EnvSteps < MaxEnvSteps
    /\ \E size_ok \in BOOLEAN :
         IF ~size_ok
         THEN UNCHANGED <<run, resizeQ, callLog>>
         ELSE IF resize_send_fails \/ Len(resizeQ) < ResizeCap
         THEN RunResizeEnds
         ELSE /\ run' = [run EXCEPT !.pc = "resize"]
              /\ UNCHANGED <<resizeQ, callLog>>
    /\ UNCHANGED <<sessVars, execVars, detVars, hookVars, histVars, scpVars, pc, status, held, inputQ, outputQ,
                   toRemote, exitSlot, handle, closed, modeDet, pwdDet,
                   clock, recvLog, readLog, waitResult>>

\* handle.resize(..).await resumed
RunResizeResume ==
    /\ run.pc = "resize"
    /\ RunResizeEnds
    /\ UNCHANGED <<sessVars, execVars, detVars, hookVars, histVars, scpVars, pc, status, held, inputQ, outputQ,
                   toRemote, exitSlot, handle, closed, modeDet, pwdDet,
                   clock, recvLog, readLog, waitResult>>

\* handle.wait().await returns and breaks the loop; then the restore, the
\* last flush with `?`, `status_result?` and
\* Ok(status.code().unwrap_or(255))
RunWait ==
    /\ run.pc = "wait"
    /\ pc \in {"done", "failed"}
    /\ handle' = "waited"
    /\ waitResult' =
          IF pc = "done"
          THEN Some([ok |-> TRUE, status |-> status[1]])
          ELSE Some([ok |-> FALSE,
                     status |-> PtyExitStatus("Err", 0, "", FALSE, "")])
    /\ \E flush_ok \in BOOLEAN :
         run' = [restore_terminal(run) EXCEPT
                    !.pc = "returned",
                    !.result =
                       IF ~flush_ok THEN <<RunResult(FALSE, 0, "flush")>>
                       ELSE IF pc = "failed"
                       THEN <<RunResult(FALSE, 0, "wait")>>
                       ELSE <<RunResult(TRUE,
                                        unwrap_or(code(status[1]), 255),
                                        "")>>]
    /\ UNCHANGED <<sessVars, execVars, detVars, hookVars, histVars, scpVars, pc, status, held, inputQ, outputQ,
                   resizeQ, toRemote, exitSlot, closed, modeDet, pwdDet,
                   clock, recvLog, readLog, callLog>>

\* run() after self.open() has returned the handle
InitRun ==
    /\ FreshBuilder
    /\ OpenedPty
    /\ \E rm \in BOOLEAN, ar \in BOOLEAN :
         run = [pc |-> "setup", raw_mode |-> rm, auto_resize |-> ar,
                stdin_closed |-> FALSE, raw |-> FALSE, term |-> <<>>,
                result |-> <<>>]
    /\ Idle({"run"})

NextRun ==
    \/ ActorInput
    \/ ActorInputEof
    \/ ActorRecv
    \/ ActorSend
    \/ ActorResize
    \/ ActorDrainRecv
    \/ ActorDrainSend
    \/ ActorDrainTimeout
    \/ Tick
    \/ RunSetup
    \/ RunWinch
    \/ RunStdin
    \/ RunWriteResume
    \/ RunRead
    \/ RunResize
    \/ RunResizeResume
    \/ RunWait

SpecRun == InitRun /\ [][NextRun]_vars

(***************************************************************************)
(* The SCP uploader (lib.rs, scp and the SCPState types)                   *)
(***************************************************************************)
\* const WRITE_TIMEOUT: Duration = Duration::from_secs(16)
WriteTimeoutSecs == 16

\* a message of the remote as scp() matches it; `during` records where scp()
\* was when the message arrived
ScpMsg(kind, data, ext, exit_status) ==
    [kind |-> kind, data |-> data, ext |-> ext, exit_status |-> exit_status,
     during |-> ""]

\* what the remote may send: a zero acknowledgement, an error report, text on
\* stderr, extended data of another extension, an exit status, a window
\* adjustment
ScpRemoteMsgs ==
    {ScpMsg("Data", <<0>>, 0, 0),
     ScpMsg("Data", <<1, 101>>, 0, 0),
     ScpMsg("ExtendedData", <<101>>, 1, 0),
     ScpMsg("ExtendedData", <<102>>, 2, 0),
     ScpMsg("ExitStatus", <<>>, 0, 1),
     ScpMsg("WindowAdjusted", <<>>, 0, 0)}

\* channel.wait() returning None
ScpChannelEnd == ScpMsg("None", <<>>, 0, 0)

\* the messages that end scp() when the streaming loop or wait_for_data
\* receives them
IsFatal(msg) ==
    \/ msg.kind = "ExtendedData" /\ msg.ext = 1
    \/ msg.kind = "ExitStatus"
    \/ msg.kind = "None"

\* remote paths: the text given to scp and its components as
\* std::path::Path sees them
ScpPaths ==
    {[raw |-> "/tmp/x.txt", components |-> <<"tmp", "x.txt">>],
     [raw |-> "up/..", components |-> <<"up", "..">>]}

file_name_of_parent(path) ==
    IF path.components = <<>> THEN Nothing
    ELSE Some(path.components[1])

\* Path::file_name: the last component, None if it is `..` or there is none
file_name(path) ==
    IF path.components = <<>> THEN Nothing
    ELSE IF path.components[Len(path.components)] = ".." THEN Nothing
    ELSE Some(path.components[Len(path.components)])

\* the local file of n bytes
FileOf(n) == [i \in 1..n |-> 10 + i]

\* what scp() sends on the channel: the text of a formatted string or raw
\* bytes
ScpItem(kind, text, bytes) == [kind |-> kind, text |-> text, bytes |-> bytes]

\* format!("scp -t {}", remote_path)
ExecCommand(path) == ScpItem("Exec", <<"scp -t ", path.raw>>, <<>>)

\* format!("C0644 {} {}\n", file_size, file_name)
MetadataLine(file_size, name) ==
    ScpItem("Data", <<"C0644 ", ToString(file_size), " ", name, "\n">>, <<>>)

\* b"\0"
ZeroByte == ScpItem("Data", <<>>, <<0>>)

ScpResult(ok, err, data, exit_status) ==
    [ok |-> ok, err |-> err, data |-> data, exit_status |-> exit_status]

ScpOk == ScpResult(TRUE, "", <<>>, 0)

ScpErr(err) == ScpResult(FALSE, err, <<>>, 0)

\* wait_for_data on one message: the data, an error, or go on waiting
wait_for_data(msg) ==
    IF msg.kind = "Data" THEN [kind |-> "data", data |-> msg.data]
    ELSE IF msg.kind = "ExtendedData" /\ msg.ext = 1
    THEN [kind |-> "err",
          err |-> ScpResult(FALSE, "SCP error", msg.data, 0)]
    ELSE IF msg.kind = "ExitStatus"
    THEN [kind |-> "err",
          err |-> ScpResult(FALSE, "SCP failed with exit code", <<>>,
                            msg.exit_status)]
    ELSE IF msg.kind = "None"
    THEN [kind |-> "err", err |-> ScpErr("Channel closed unexpectedly")]
    ELSE [kind |-> "ignore"]

\* the `msg = state.channel.wait()` arm of the streaming loop on one message:
\* Some(error) or None when the message is ignored
stream_event(msg) ==
    IF msg.kind = "ExtendedData" /\ msg.ext = 1
    THEN <<ScpResult(FALSE, "Remote SCP error", msg.data, 0)>>
    ELSE IF msg.kind = "ExitStatus"
    THEN <<ScpResult(FALSE, "Remote SCP exited early with code", <<>>,
                     msg.exit_status)>>
    ELSE IF msg.kind = "None"
    THEN <<ScpErr("Channel closed during transfer")>>
    ELSE <<>>

ScpReturn(s, res) == [s EXCEPT !.pc = "returned", !.result = <<res>>]

ScpChannelEnded ==
    \E i \in 1..Len(scpChan) : scpChan[i].kind = "None"

\* the remote sends a message or ends the channel
ScpRemote ==
    /\ scp.pc \notin {"none", "returned"}
    /\ scp.arrived < MaxScpMsgs
    /\ ~ScpChannelEnded
    /\ \E m \in ScpRemoteMsgs \cup {ScpChannelEnd} :
         LET msg == [m EXCEPT !.during = scp.pc] IN
         /\ scpChan' = Append(scpChan, msg)
         /\ scp' = [scp EXCEPT
                       !.arrived = @ + 1,
                       !.first_fatal =
                          IF @ = <<>> /\ IsFatal(msg) THEN <<msg>> ELSE @]
    /\ UNCHANGED <<sessVars, execVars, detVars, ptyVars, runVars, hookVars, histVars, scpSent>>

\* SCPStateOpen::start_tx: channel.exec(true, "scp -t <remote_path>")
ScpExec ==
    /\ scp.pc = "exec"
    /\ scpSent' = Append(scpSent, ExecCommand(scp.remote_path))
    /\ scp' = [scp EXCEPT !.pc = "ack_start"]
    /\ UNCHANGED <<sessVars, execVars, detVars, ptyVars, runVars, hookVars, histVars, scpChan>>

AfterAck_unchecked(r, failed, next, sent) ==
    IF r.kind = "err"
    THEN /\ scp' = ScpReturn(scp, r.err)
         /\ scpSent' = scpSent
    ELSE /\ scp' = [next EXCEPT !.acks = Append(@, r.data[1])]
         /\ scpSent' = scpSent \o sent

\* what follows a wait_for_data that has returned: an error of wait_for_data
\* or a non-zero first byte returns the error `failed`, a zero byte goes on
\* with `next`
AfterAck(r, failed, next, sent) ==
    IF r.kind = "err"
    THEN /\ scp' = ScpReturn(scp, r.err)
         /\ scpSent' = scpSent
    ELSE IF r.data[1] # 0
    THEN /\ scp' = ScpReturn([scp EXCEPT !.acks = Append(@, r.data[1])],
                             ScpResult(FALSE, failed, r.data, 0))
         /\ scpSent' = scpSent
    ELSE /\ scp' = [next EXCEPT !.acks = Append(@, 0)]
         /\ scpSent' = scpSent \o sent

\* start_tx after the exec: wait_for_data; then file.metadata(), file_name()
\* and write_metadata up to its wait_for_data
ScpAckStart ==
    /\ scp.pc = "ack_start"
    /\ scpChan # <<>>
    /\ scpChan' = Tail(scpChan)
    /\ LET r == wait_for_data(Head(scpChan))
           name == file_name(scp.remote_path)
       IN  IF r.kind = "ignore" THEN UNCHANGED <<scp, scpSent>>
           ELSE IF r.kind = "data" /\ r.data[1] = 0 /\ name = Nothing
           THEN /\ scp' = ScpReturn([scp EXCEPT !.acks = Append(@, 0)],
                                    ScpErr("Invalid file name"))
                /\ scpSent' = scpSent
           ELSE AfterAck(r, "SCP start failed",
                         [scp EXCEPT !.pc = "ack_meta"],
                         IF name = Nothing THEN <<>>
                         ELSE <<MetadataLine(Len(scp.file), name[1])>>)
    /\ UNCHANGED <<sessVars, execVars, detVars, ptyVars, runVars, hookVars, histVars>>

\* write_metadata: wait_for_data, then the streaming loop begins
ScpAckMeta ==
    /\ scp.pc = "ack_meta"
    /\ scpChan # <<>>
    /\ scpChan' = Tail(scpChan)
    /\ LET r == wait_for_data(Head(scpChan))
       IN  IF r.kind = "ignore" THEN UNCHANGED <<scp, scpSent>>
           ELSE AfterAck(r, "SCP confirmation failed",
                         [scp EXCEPT !.pc = "stream"], <<>>)
    /\ UNCHANGED <<sessVars, execVars, detVars, ptyVars, runVars, hookVars, histVars>>

Min(a, b) == IF a <= b THEN a ELSE b

\* select arm `result = reader.read(&mut buffer), if !eof_reached`:
\* Ok(0) sets eof_reached, the loop is left and eof() writes the zero byte;
\* Ok(n) writes the chunk under the timeout; Err returns
ScpRead ==
    /\ scp.pc = "stream"
    /\ LET rest == Len(scp.file) - scp.off IN
       \/ /\ rest = 0
          /\ scp' = [scp EXCEPT !.pc = "ack_eof"]
          /\ scpSent' = Append(scpSent, ZeroByte)
       \/ /\ rest > 0
          /\ \E n \in 1..Min(ChunkSize, rest) :
               LET buf == SubSeq(scp.file, scp.off + 1, scp.off + n) IN
               \/ /\ scp' = [scp EXCEPT !.off = @ + n]
                  /\ scpSent' = Append(scpSent, ScpItem("Data", <<>>, buf))
               \/ /\ scp' = [scp EXCEPT !.pc = "write", !.chunk = buf,
                                        !.wclock = 0]
                  /\ scpSent' = scpSent
       \/ /\ scp' = ScpReturn(scp, ScpErr("read failed"))
          /\ scpSent' = scpSent
    /\ UNCHANGED <<sessVars, execVars, detVars, ptyVars, runVars, hookVars, histVars, scpChan>>

\* select arm `msg = state.channel.wait()` of the streaming loop
ScpEvent ==
    /\ scp.pc = "stream"
    /\ scpChan # <<>>
    /\ scpChan' = Tail(scpChan)
    /\ LET e == stream_event(Head(scpChan)) IN
       scp' = IF e = <<>> THEN scp ELSE ScpReturn(scp, e[1])
    /\ UNCHANGED <<sessVars, execVars, detVars, ptyVars, runVars, hookVars, histVars, scpSent>>

\* state.write_data(&buffer[..n]) completes before the timeout
ScpWriteDone ==
    /\ scp.pc = "write"
    /\ scpSent' = Append(scpSent, ScpItem("Data", <<>>, scp.chunk))
    /\ scp' = [scp EXCEPT !.pc = "stream", !.off = @ + Len(scp.chunk),
                          !.chunk = <<>>, !.wclock = 0]
    /\ UNCHANGED <<sessVars, execVars, detVars, ptyVars, runVars, hookVars, histVars, scpChan>>

\* a second passes while the chunk write is suspended
ScpTick ==
    /\ scp.pc = "write"
    /\ scp.wclock < WriteTimeoutSecs
    /\ scp' = [scp EXCEPT !.wclock = @ + 1]
    /\ UNCHANGED <<sessVars, execVars, detVars, ptyVars, runVars, hookVars, histVars, scpChan, scpSent>>

write_timeout_goes_on(s) == [s EXCEPT !.pc = "stream", !.off = Len(s.file)]

\* timeout(WRITE_TIMEOUT, ..) elapsed: map_err(..)? returns the error
write_timeout(s) == ScpReturn(s, ScpErr("Write timed out after 16s"))

ScpWriteTimeout ==
    /\ scp.pc = "write"
    /\ scp.wclock >= WriteTimeoutSecs
    /\ scp' = write_timeout(scp)
    /\ UNCHANGED <<sessVars, execVars, detVars, ptyVars, runVars, hookVars, histVars, scpChan, scpSent>>

\* SCPStateTxData::eof after the zero byte: wait_for_data, channel.eof();
\* then SCPStateEOF::close
ScpAckEof ==
    /\ scp.pc = "ack_eof"
    /\ scpChan # <<>>
    /\ scpChan' = Tail(scpChan)
    /\ LET r == wait_for_data(Head(scpChan))
       IN  IF r.kind = "ignore" THEN UNCHANGED <<scp, scpSent>>
           ELSE AfterAck(r, "SCP post-data confirmation failed",
                         ScpReturn(scp, ScpOk),
                         <<ScpItem("Eof", <<>>, <<>>),
                           ScpItem("Close", <<>>, <<>>)>>)
    /\ UNCHANGED <<sessVars, execVars, detVars, ptyVars, runVars, hookVars, histVars>>

\* scp() with the local file and the channel opened
InitScp ==
    /\ FreshBuilder
    /\ NoPty
    /\ \E path \in ScpPaths, n \in 0..MaxFileLen :
         scp = [pc |-> "exec", remote_path |-> path, file |-> FileOf(n),
                off |-> 0, chunk |-> <<>>, wclock |-> 0, acks |-> <<>>,
                first_fatal |-> <<>>, arrived |-> 0, result |-> <<>>]
    /\ scpChan = <<>>
    /\ scpSent = <<>>
    /\ Idle({"scp"})

NextScp ==
    \/ ScpRemote
    \/ ScpExec
    \/ ScpAckStart
    \/ ScpAckMeta
    \/ ScpRead
    \/ ScpEvent
    \/ ScpWriteDone
    \/ ScpTick
    \/ ScpWriteTimeout
    \/ ScpAckEof

SpecScp == InitScp /\ [][NextScp]_vars

(***************************************************************************)
(* Command execution: Session::run / exec / system / cmd, the command of   *)
(* PtyBuilder::open, SessionInner::exec / cmd / get_command and system().  *)
(* A string is a sequence of one-character strings.                        *)
(***************************************************************************)

MaxArgs == 2

MaxExecMsgs == 3

\* the strings the calls are made with: a plain word, a word with a space and
\* a shell metacharacter, a single quote
Words == { <<"l", "s">>, <<"a", " ", "$">>, <<"'">> }

\* Vec<String> of up to MaxArgs elements
Vectors == UNION { [1..n -> Words] : n \in 0..MaxArgs }

\* shell_escape::unix: the bytes that need no quoting
AllowedChars ==
    { "a", "b", "c", "d", "e", "f", "g", "h", "i", "j", "k", "l", "m",
      "n", "o", "p", "q", "r", "s", "t", "u", "v", "w", "x", "y", "z",
      "A", "B", "C", "D", "E", "F", "G", "H", "I", "J", "K", "L", "M",
      "N", "O", "P", "Q", "R", "S", "T", "U", "V", "W", "X", "Y", "Z",
      "0", "1", "2", "3", "4", "5", "6", "7", "8", "9",
      "-", "_", "=", "/", ",", ".", "+" }

allowed(ch) == ch \in AllowedChars

\* the body of a quoted string: ' and ! leave the quotes, escaped by \
RECURSIVE quoted(_)
quoted(s) ==
    IF s = <<>> THEN <<>>
    ELSE (IF Head(s) \in {"'", "!"}
          THEN <<"'", "\\", Head(s), "'">>
          ELSE <<Head(s)>>) \o quoted(Tail(s))

\* shell_escape::escape on a unix build
escape(s) ==
    IF s # <<>> /\ \A i \in 1..Len(s) : allowed(s[i])
    THEN s
    ELSE <<"'">> \o quoted(s) \o <<"'">>

\* [String]::join(sep)
RECURSIVE join(_, _)
join(v, sep) ==
    IF v = <<>> THEN <<>>
    ELSE IF Len(v) = 1 THEN v[1]
    ELSE v[1] \o sep \o join(Tail(v), sep)

Space == <<" ">>

get_command == join([i \in 1..Len(cmdv) |-> escape(cmdv[i])], Space)

\* Result<u32>
ExResult(ok, c, e) == [ok |-> ok, code |-> c, err |-> e]

ExOk(c) == ExResult(TRUE, c, "")

ExErr(e) == ExResult(FALSE, 0, e)

\* Option<u32>::ok_or
ok_or(opt, e) == IF opt = <<>> THEN ExErr(e) ELSE ExOk(opt[1])

\* the n-th message the remote sends carries n as its data and exit status
ExecMsgs(n) ==
    { ScpMsg("Data", <<n>>, 0, 0),
      ScpMsg("ExtendedData", <<n>>, 1, 0),
      ScpMsg("ExtendedData", <<n>>, 2, 0),
      ScpMsg("ExitStatus", <<>>, 0, n),
      ScpMsg("Eof", <<>>, 0, 0) }

\* a stream that forwards whatever the flag says
forward_always(log, data, enabled) == log \o data

\* `if out { stdout.write_all(data) }`, `if err && ext == 1 { stderr.. }`
forward(log, data, enabled) == IF enabled THEN log \o data ELSE log

\* the call reaches system(session, command, err, out), or fails before it;
\* opened is the result of channel_open_session and of channel.exec
Call(op, argv, text, command, err, out, opened) ==
    /\ ex.pc = "none"
    /\ ex' = IF ~ex.session
             THEN [ex EXCEPT !.pc = "done", !.op = op, !.argv = argv,
                             !.text = text,
                             !.result = <<ExErr("No open session")>>]
             ELSE IF ~opened
             THEN [ex EXCEPT !.pc = "done", !.op = op, !.argv = argv,
                             !.text = text, !.err = err, !.out = out,
                             !.result = <<ExErr("channel")>>]
             ELSE [ex EXCEPT !.pc = "loop", !.op = op, !.argv = argv,
                             !.text = text, !.err = err, !.out = out,
                             !.command = <<command>>]
    /\ UNCHANGED <<sessVars, ptyVars, runVars, hookVars, histVars, scpVars, detVars,
                 cmdv>>

\* SessionInner::exec up to the call of system()
inner_exec(command) ==
    IF command # <<>> THEN join(command[1], Space) ELSE get_command

\* Session::run
RunCall ==
    \E opened \in BOOLEAN :
        Call("run", <<>>, <<>>, inner_exec(<<>>), TRUE, TRUE, opened)

\* Session::exec
ExecCall ==
    \E argv \in Vectors, opened \in BOOLEAN :
        Call("exec", argv, <<>>, inner_exec(<<argv>>), FALSE, FALSE, opened)

\* Session::system
SystemCall ==
    \E text \in Words, opened \in BOOLEAN :
        Call("system", <<>>, text,
             inner_exec(<< <<(<<"s", "h">>), (<<"-", "c">>), text>> >>),
             FALSE, FALSE, opened)

\* Session::cmd and SessionInner::cmd
CmdCall ==
    \E text \in Words, opened \in BOOLEAN :
        Call("cmd", <<>>, text, text, FALSE, FALSE, opened)

\* PtyBuilder::open: the command it asks the channel to exec
PtyOpenCommand ==
    /\ ex.pc = "none"
    /\ \E command \in {<<>>} \cup {<<w>> : w \in Words}, opened \in BOOLEAN :
        LET c == IF command # <<>> THEN command[1] ELSE get_command
        IN  ex' = IF ~ex.session
                  THEN [ex EXCEPT !.pc = "done", !.op = "pty",
                                  !.argv = command,
                                  !.result = <<ExErr("No open session")>>]
                  ELSE IF ~opened
                  THEN [ex EXCEPT !.pc = "done", !.op = "pty",
                                  !.argv = command,
                                  !.result = <<ExErr("channel")>>]
                  ELSE [ex EXCEPT !.pc = "done", !.op = "pty",
                                  !.argv = command, !.command = <<c>>,
                                  !.result = <<ExOk(0)>>]
    /\ UNCHANGED <<sessVars, ptyVars, runVars, hookVars, histVars, scpVars, detVars,
                 cmdv>>

\* one iteration of the loop of system() on a message; written is the result
\* of the write_all and flush on the local stream
ExecRecv ==
    /\ ex.pc = "loop"
    /\ Len(ex.seen) < MaxExecMsgs
    /\ \E msg \in ExecMsgs(Len(ex.seen) + 1), written \in BOOLEAN :
        LET writes == \/ msg.kind = "Data" /\ ex.out
                      \/ msg.kind = "ExtendedData" /\ ex.err /\ msg.ext = 1
            e == [ex EXCEPT !.seen = Append(@, msg)]
        IN  /\ ~writes => written
            /\ ex' =
                IF writes /\ ~written
                THEN [e EXCEPT !.pc = "done", !.result = <<ExErr("io")>>]
                ELSE IF msg.kind = "Data"
                THEN [e EXCEPT !.stdout = forward(@, msg.data, e.out)]
                ELSE IF msg.kind = "ExtendedData"
                THEN [e EXCEPT !.stderr =
                          forward(@, msg.data, e.err /\ msg.ext = 1)]
                ELSE IF msg.kind = "ExitStatus"
                THEN [e EXCEPT !.code = <<msg.exit_status>>]
                ELSE e
    /\ UNCHANGED <<sessVars, ptyVars, runVars, hookVars, histVars, scpVars, detVars,
                 cmdv>>

\* channel.wait() returns None: the loop ends and system() returns
ExecEnd ==
    /\ ex.pc = "loop"
    /\ ex' = [ex EXCEPT !.pc = "done", !.ended = TRUE,
                        !.result =
                            <<ok_or(ex.code, "program did not exit cleanly")>>]
    /\ UNCHANGED <<sessVars, ptyVars, runVars, hookVars, histVars, scpVars, detVars,
                 cmdv>>

InitExec ==
    /\ FreshBuilder /\ NoPty /\ Idle({"exec"})
    /\ cmdv \in Vectors
    /\ ex \in {[NoCall EXCEPT !.session = s] : s \in BOOLEAN}

NextExec ==
    \/ RunCall
    \/ ExecCall
    \/ SystemCall
    \/ CmdCall
    \/ PtyOpenCommand
    \/ ExecRecv
    \/ ExecEnd

SpecExec == InitExec /\ [][NextExec]_vars

(***************************************************************************)
(* The detectors on a byte stream that arrives in chunks                   *)
(***************************************************************************)

MaxPieces == 2

MaxChunk == 3

MaxCall == 24

\* The remote sends pieces: bytes, with the event or the path the piece
\* stands for and the length of its OSC payload.

\* ESC [ ? 4 7 h
PieceEnter47 ==
    [bytes |-> <<27, 91, 63, 52, 55, 104>>,
     event |-> "EnterAltMode", path |-> <<>>, payload |-> 0]

\* ESC [ ? 4 7 l
PieceExit47 ==
    [bytes |-> <<27, 91, 63, 52, 55, 108>>,
     event |-> "ExitAltMode", path |-> <<>>, payload |-> 0]

\* ESC [ ? 1 0 4 9 h
PieceEnter1049 ==
    [bytes |-> <<27, 91, 63, 49, 48, 52, 57, 104>>,
     event |-> "EnterAltMode", path |-> <<>>, payload |-> 0]

\* ESC [ ? 1 0 4 9 l
PieceExit1049 ==
    [bytes |-> <<27, 91, 63, 49, 48, 52, 57, 108>>,
     event |-> "ExitAltMode", path |-> <<>>, payload |-> 0]

\* ESC [ ? 1 0 4 8 h: another private mode
PieceMode1048 ==
    [bytes |-> <<27, 91, 63, 49, 48, 52, 56, 104>>,
     event |-> "", path |-> <<>>, payload |-> 0]

\* ESC [ 1 ; 2 m: another CSI sequence
PieceOtherCsi ==
    [bytes |-> <<27, 91, 49, 59, 50, 109>>,
     event |-> "", path |-> <<>>, payload |-> 0]

\* a stray ESC
PieceStrayEscape ==
    [bytes |-> <<27>>,
     event |-> "", path |-> <<>>, payload |-> 0]

\* ESC c: an escape followed by a byte other than [
PieceLoneEscape ==
    [bytes |-> <<27, 99>>,
     event |-> "", path |-> <<>>, payload |-> 0]

\* binary data
PieceBinary ==
    [bytes |-> <<0, 255, 104>>,
     event |-> "", path |-> <<>>, payload |-> 0]

\* ESC [ and seven digits: an unterminated sequence of 9 bytes
PieceLongCsi ==
    [bytes |-> <<27, 91, 49, 49, 49, 49, 49, 49, 49>>,
     event |-> "", path |-> <<>>, payload |-> 0]

\* ESC [ ? and six digits: an unterminated sequence of 9 bytes
PieceLongMode ==
    [bytes |-> <<27, 91, 63, 49, 49, 49, 49, 49, 49>>,
     event |-> "", path |-> <<>>, payload |-> 0]

\* ESC ] 7;file://h/a BEL
PieceOsc7Host ==
    [bytes |->
       <<27, 93, 55, 59, 102, 105, 108, 101, 58, 47, 47, 104, 47, 97, 7>>,
     event |-> "", path |-> <<<<47, 97>>>>,
     payload |-> 12]

\* ESC ] 7;file:///a%20b ESC \
PieceOsc7Encoded ==
    [bytes |->
       <<27, 93, 55, 59, 102, 105, 108, 101, 58, 47, 47, 47, 97, 37, 50,
         48, 98, 27, 92>>,
     event |-> "", path |-> <<<<47, 97, 32, 98>>>>,
     payload |-> 15]

\* ESC ] 633;P;Cwd=/v BEL
PieceOsc633 ==
    [bytes |->
       <<27, 93, 54, 51, 51, 59, 80, 59, 67, 119, 100, 61, 47, 118, 7>>,
     event |-> "", path |-> <<<<47, 118>>>>,
     payload |-> 12]

\* ESC ] 633;P;Cwd=/%ff ESC \: the decoded bytes are not UTF-8
PieceOsc633Raw ==
    [bytes |->
       <<27, 93, 54, 51, 51, 59, 80, 59, 67, 119, 100, 61, 47, 37, 102,
         102, 27, 92>>,
     event |-> "", path |-> <<<<47, 37, 102, 102>>>>,
     payload |-> 14]

\* ESC ] 0;t BEL: another OSC code
PieceOtherCode ==
    [bytes |->
       <<27, 93, 48, 59, 116, 7>>,
     event |-> "", path |-> <<>>,
     payload |-> 3]

\* ESC ] 7;http://h/a BEL
PieceNonFileUrl ==
    [bytes |->
       <<27, 93, 55, 59, 104, 116, 116, 112, 58, 47, 47, 104, 47, 97, 7>>,
     event |-> "", path |-> <<>>,
     payload |-> 12]

\* ESC ] 7;file://h BEL
PieceNoPathSlash ==
    [bytes |->
       <<27, 93, 55, 59, 102, 105, 108, 101, 58, 47, 47, 104, 7>>,
     event |-> "", path |-> <<>>,
     payload |-> 10]

\* ESC ] 633;P;Cwd= BEL
PieceEmptyCwd ==
    [bytes |->
       <<27, 93, 54, 51, 51, 59, 80, 59, 67, 119, 100, 61, 7>>,
     event |-> "", path |-> <<>>,
     payload |-> 10]

\* ESC ] 633;P;Cwd=/ccc..c BEL: a payload of 66 bytes
PieceLongPayload ==
    [bytes |-> <<27, 93, 54, 51, 51, 59, 80, 59, 67, 119, 100, 61, 47>>
                 \o [i \in 1..55 |-> 99] \o <<7>>,
     event |-> "", path |-> << <<47>> \o [i \in 1..55 |-> 99] >>,
     payload |-> 66]

ModePieces ==
    {PieceEnter47, PieceExit47, PieceEnter1049, PieceExit1049,
     PieceMode1048, PieceOtherCsi, PieceLoneEscape, PieceBinary,
     PieceLongCsi, PieceLongMode, PieceStrayEscape}

PwdPieces ==
    {PieceOsc7Host, PieceOsc7Encoded, PieceOsc633, PieceOsc633Raw,
     PieceOtherCode, PieceNonFileUrl, PieceNoPathSlash, PieceEmptyCwd,
     PieceLongPayload}

\* what the remote sends in all: up to MaxPieces pieces for one of the parsers
Streams ==
    UNION {[1..n -> ModePieces] : n \in 0..MaxPieces}
    \cup UNION {[1..n -> PwdPieces] : n \in 1..MaxPieces}

RECURSIVE Flatten(_)
Flatten(stream) ==
    IF stream = <<>> THEN <<>>
    ELSE Head(stream).bytes \o Flatten(Tail(stream))

\* the positions at which the pieces of a stream end
PieceEnds(stream) ==
    {Len(Flatten(SubSeq(stream, 1, n))) : n \in 1..Len(stream)}

\* watch::Sender::send: the slot is overwritten
watch_send(ch, v) == [ch EXCEPT !.value = v, !.version = @ + 1]

SequenceMode(event) ==
    IF event = "EnterAltMode" THEN "Alternate" ELSE "Standard"

\* ModeDetection::update_mode: `if *current != new_mode`, the condition of
\* event_tx.send
update_mode_sends(md, new_mode) == md.current_mode # new_mode

\* the loop of ModeDetection::feed on the watch channel
RECURSIVE SendModes(_, _, _)
SendModes(md, tx, events) ==
    IF events = <<>> THEN tx
    ELSE LET m == SequenceMode(Head(events))
         IN  SendModes(update_mode(md, m),
                       IF update_mode_sends(md, m) THEN watch_send(tx, m)
                       ELSE tx,
                       Tail(events))

\* the events parser.feed(data) returns to ModeDetection::feed
ModeEvents(det, data) ==
    IF det = Nothing \/ ~det[1].enabled THEN <<>>
    ELSE EscapeSequenceParser_feed(det[1].parser, data).events

update_pwd_sends_always(pd, new_pwd) == TRUE

\* PwdDetection::update_pwd: `changed`, the condition of event_tx.send
update_pwd_sends(pd, new_pwd) ==
    IF pd.current_pwd # Nothing THEN pd.current_pwd[1] # new_pwd ELSE TRUE

\* the loop of PwdDetection::feed on the watch channel
RECURSIVE SendPaths(_, _, _)
SendPaths(pd, tx, paths) ==
    IF paths = <<>> THEN tx
    ELSE SendPaths(update_pwd(pd, Head(paths)),
                   IF update_pwd_sends(pd, Head(paths))
                   THEN watch_send(tx, Some(Head(paths))) ELSE tx,
                   Tail(paths))

\* the paths parser.feed(data) returns to PwdDetection::feed
PwdPaths(det, data) ==
    IF det = Nothing \/ ~det[1].enabled THEN <<>>
    ELSE OscParser_feed(det[1].parser, data).paths

\* md.feed(data) and pd.feed(data) as pty_io_task calls them on a Data
\* message: the detectors, the watch channels, what the parsers returned
FeedDetectors(data) ==
    /\ modeDet' = FeedMode(modeDet, data)
    /\ pwdDet' = FeedPwd(pwdDet, data)
    /\ chan' = [mode |-> IF modeDet = Nothing THEN chan.mode
                         ELSE SendModes(modeDet[1], chan.mode,
                                        ModeEvents(modeDet, data)),
                pwd |-> IF pwdDet = Nothing THEN chan.pwd
                        ELSE SendPaths(pwdDet[1], chan.pwd,
                                       PwdPaths(pwdDet, data))]

\* the end of the piece that the byte after position pos belongs to
PieceEnd(stream, pos) ==
    CHOOSE e \in PieceEnds(stream) :
        e > pos /\ \A f \in PieceEnds(stream) : f > pos => e <= f

\* the lengths the next chunk may have: up to MaxChunk bytes, or all that is
\* left of the current piece if that is at most MaxCall bytes
ChunkLengths ==
    (1..MaxChunk)
    \cup {k \in {PieceEnd(ps.stream, ps.pos) - ps.pos} : k <= MaxCall}

\* the next chunk of the stream arrives
Feed ==
    /\ ps.pos < Len(ps.bytes)
    /\ \E k \in ChunkLengths :
        /\ ps.pos + k <= Len(ps.bytes)
        /\ LET data == SubSeq(ps.bytes, ps.pos + 1, ps.pos + k)
           IN  /\ FeedDetectors(data)
               /\ ps' = [ps EXCEPT
                           !.pos = @ + k,
                           !.mid = @ \/ (ps.pos > 0
                                         /\ ps.pos \notin PieceEnds(ps.stream)),
                           !.events = @ \o ModeEvents(modeDet, data),
                           !.paths = @ \o PwdPaths(pwdDet, data)]
    /\ UNCHANGED <<sessVars, runVars, hookVars, histVars, scpVars, execVars, ptyb,
                   watchers>>
    /\ UNCHANGED <<pc, status, held, inputQ, outputQ, resizeQ, toRemote,
                   exitSlot, handle, closed, clock, recvLog, readLog,
                   callLog, waitResult>>

\* `self.mode_detection_config.map(|config| Arc::new(ModeDetection::new(config)))`
open_mode_detection(b) ==
    IF b.mode_detection_config = Nothing THEN Nothing
    ELSE Some(ModeDetection_new(b.mode_detection_config[1]))

\* `self.pwd_detection_config.map(|config| Arc::new(PwdDetection::new(config)))`
open_pwd_detection(b) ==
    IF b.pwd_detection_config = Nothing THEN Nothing
    ELSE Some(PwdDetection_new(b.pwd_detection_config[1]))

\* the detectors PtyBuilder::open makes of the two configurations
OpenDetectors(b) ==
    /\ modeDet = open_mode_detection(b)
    /\ pwdDet = open_pwd_detection(b)
    /\ chan = [mode |-> watch_channel("Standard"),
               pwd |-> watch_channel(Nothing)]

\* both detections enabled by with_mode_detection_config and
\* with_pwd_detection_config, with buffer sizes the streams can fill: the
\* smallest sizes the parsers use, and sizes below them
DetectionProfiles ==
    {[mode_detection_config |-> Some([enabled |-> TRUE, buffer_size |-> 8]),
      pwd_detection_config |-> Some([enabled |-> TRUE, buffer_size |-> 64]),
      asked |-> [mode |-> Some(TRUE), pwd |-> Some(TRUE), calls |-> 2]],
     [mode_detection_config |-> Some([enabled |-> TRUE, buffer_size |-> 4]),
      pwd_detection_config |-> Some([enabled |-> TRUE, buffer_size |-> 16]),
      asked |-> [mode |-> Some(TRUE), pwd |-> Some(TRUE), calls |-> 2]]}

\* a PTY session opened with both detections; the remote is about to send
InitParse ==
    /\ FreshBuilder /\ Idle({"det"})
    /\ pc = "main" /\ status = <<>> /\ held = <<>> /\ inputQ = <<>>
    /\ outputQ = <<>> /\ resizeQ = <<>> /\ toRemote = <<>>
    /\ exitSlot = <<>> /\ handle = "open" /\ closed = FALSE
    /\ clock = [drain |-> 0, sleep |-> 0]
    /\ recvLog = <<>>
    /\ readLog = [batches |-> <<>>, eos |-> FALSE]
    /\ callLog = [write |-> <<>>, resize |-> <<>>]
    /\ waitResult = <<>>
    /\ ptyb \in DetectionProfiles
    /\ OpenDetectors(ptyb)
    /\ watchers = <<>>
    /\ \E stream \in Streams :
         ps = [stream |-> stream, bytes |-> Flatten(stream), pos |-> 0,
               mid |-> FALSE, events |-> <<>>, paths |-> <<>>]

NextParse == Feed

SpecParse == InitParse /\ [][NextParse]_vars

(***************************************************************************)
(* Detection set up on the PTY builder, and the watchers of the open PTY   *)
(***************************************************************************)
MaxConfigCalls == 2
MaxFeeds == 2
MaxWatchers == 2
MaxWatcherCalls == 3

ModeConfigs ==
    {[enabled |-> e, buffer_size |-> ModeBufferSize] : e \in BOOLEAN}

PwdConfigs ==
    {[enabled |-> e, buffer_size |-> PwdBufferSize] : e \in BOOLEAN}

\* PtyBuilder::with_mode_detection
with_mode_detection(b) ==
    [b EXCEPT !.mode_detection_config =
                  Some([enabled |-> TRUE, buffer_size |-> ModeBufferSize])]

\* PtyBuilder::with_mode_detection_config
with_mode_detection_config(b, config) ==
    [b EXCEPT !.mode_detection_config = Some(config)]

\* PtyBuilder::with_pwd_detection
with_pwd_detection(b) ==
    [b EXCEPT !.pwd_detection_config =
                  Some([enabled |-> TRUE, buffer_size |-> PwdBufferSize])]

\* PtyBuilder::with_pwd_detection_config: `config.enabled = true`
with_pwd_detection_config(b, config) ==
    [b EXCEPT !.pwd_detection_config = Some([config EXCEPT !.enabled = TRUE])]

\* the variables of the PTY actor that detection does not touch
ptyRest ==
    <<status, held, inputQ, outputQ, resizeQ, toRemote, exitSlot,
      closed, clock, recvLog, readLog, callLog, waitResult>>

otherParts ==
    <<sessVars, runVars, hookVars, scpVars, execVars, histVars, ptyRest>>

Asked(b, kind, enabled) ==
    [b EXCEPT !.asked[kind] = Some(enabled), !.asked.calls = @ + 1]

WithModeDetection ==
    /\ handle = "none"
    /\ ptyb.asked.calls < MaxConfigCalls
    /\ ptyb' = Asked(with_mode_detection(ptyb), "mode", TRUE)
    /\ UNCHANGED <<otherParts, pc, handle, modeDet, pwdDet, chan, watchers, ps>>

WithModeDetectionConfig ==
    /\ handle = "none"
    /\ ptyb.asked.calls < MaxConfigCalls
    /\ \E config \in ModeConfigs :
         ptyb' = Asked(with_mode_detection_config(ptyb, config), "mode",
                       config.enabled)
    /\ UNCHANGED <<otherParts, pc, handle, modeDet, pwdDet, chan, watchers, ps>>

WithPwdDetection ==
    /\ handle = "none"
    /\ ptyb.asked.calls < MaxConfigCalls
    /\ ptyb' = Asked(with_pwd_detection(ptyb), "pwd", TRUE)
    /\ UNCHANGED <<otherParts, pc, handle, modeDet, pwdDet, chan, watchers, ps>>

WithPwdDetectionConfig ==
    /\ handle = "none"
    /\ ptyb.asked.calls < MaxConfigCalls
    /\ \E config \in PwdConfigs :
         ptyb' = Asked(with_pwd_detection_config(ptyb, config), "pwd",
                       config.enabled)
    /\ UNCHANGED <<otherParts, pc, handle, modeDet, pwdDet, chan, watchers, ps>>

\* PtyBuilder::open: the detectors and their channels
OpenWatched ==
    /\ handle = "none"
    /\ handle' = "open"
    /\ modeDet' = open_mode_detection(ptyb)
    /\ pwdDet' = open_pwd_detection(ptyb)
    /\ chan' = [mode |-> watch_channel("Standard"),
                pwd |-> watch_channel(Nothing)]
    /\ UNCHANGED <<otherParts, pc, ptyb, watchers, ps>>

\* what the remote sends in one Data message
WatchPieces ==
    {PieceEnter1049, PieceExit1049, PieceOsc7Host, PieceOsc633}

\* a Data message arrives at pty_io_task
FeedPiece ==
    /\ handle = "open"
    /\ pc = "main"
    /\ ps.pos < MaxFeeds
    /\ \E piece \in WatchPieces : FeedDetectors(piece.bytes)
    /\ ps' = [ps EXCEPT !.pos = @ + 1]
    /\ UNCHANGED <<otherParts, pc, handle, ptyb, watchers>>

\* pty_io_task returns: its Arcs of the detectors are released, the
\* PtyHandle still holds its own
TaskEnds ==
    /\ handle = "open"
    /\ pc = "main"
    /\ pc' = "done"
    /\ UNCHANGED <<otherParts, handle, ptyb, modeDet, pwdDet, chan, watchers,
                   ps>>

\* the last Arc of a detector is released: event_tx is dropped
sender_dropped(ch) == [ch EXCEPT !.closed = TRUE]

\* the PtyHandle is dropped (Drop aborts the task if it still runs, wait()
\* has seen it end): both owners have released the detectors
EndSession ==
    /\ handle = "open"
    /\ handle' = "dropped"
    /\ pc' = "done"
    /\ chan' = [mode |-> sender_dropped(chan.mode),
                pwd |-> sender_dropped(chan.pwd)]
    /\ UNCHANGED <<otherParts, ptyb, modeDet, pwdDet, watchers, ps>>

\* PtyHandle::current_mode
PtyHandle_current_mode ==
    IF modeDet = Nothing THEN Nothing ELSE Some(modeDet[1].current_mode)

\* PtyHandle::is_alt_mode
PtyHandle_is_alt_mode ==
    IF modeDet = Nothing THEN FALSE
    ELSE modeDet[1].current_mode = "Alternate"

\* PtyHandle::is_std_mode
PtyHandle_is_std_mode ==
    IF modeDet = Nothing THEN TRUE
    ELSE modeDet[1].current_mode = "Standard"

\* PtyHandle::current_pwd
PtyHandle_current_pwd ==
    IF pwdDet = Nothing THEN Nothing ELSE pwdDet[1].current_pwd

\* the receiver ModeDetection::new and PwdDetection::new keep in event_rx:
\* nothing calls changed() or borrow_and_update() on it, so the version it
\* has seen stays the initial one
event_rx == [seen |-> 0]

\* watch::Receiver::clone: the clone has seen what the original has seen
Receiver_clone(rx) == rx.seen

\* no call has returned yet
NoReturn ==
    [op |-> "none", value |-> Nothing, previous |-> Nothing,
     current |-> Nothing, target |-> "", immediate |-> FALSE]

\* ModeDetection::create_watcher / PwdDetection::create_watcher; born, created,
\* obs, ret and n are history: the channel version at creation or at the last
\* return of changed(), the detector's value at creation, the last value
\* changed() observed, what the last call returned, the number of returns
create_watcher(kind, current, ch) ==
    [kind |-> kind, seen |-> Receiver_clone(event_rx), last_known |-> current,
     waiting |-> Nothing, born |-> ch.version, created |-> <<current>>,
     obs |-> Nothing, ret |-> NoReturn, n |-> 0]

\* PtyHandle::watch_mode
WatchMode ==
    /\ handle = "open"
    /\ modeDet # Nothing
    /\ Len(watchers) < MaxWatchers
    /\ watchers' = Append(watchers,
                          create_watcher("mode", modeDet[1].current_mode,
                                         chan.mode))
    /\ UNCHANGED <<otherParts, pc, handle, ptyb, modeDet, pwdDet, chan, ps>>

\* PtyHandle::watch_pwd
WatchPwd ==
    /\ handle = "open"
    /\ pwdDet # Nothing
    /\ Len(watchers) < MaxWatchers
    /\ watchers' = Append(watchers,
                          create_watcher("pwd", pwdDet[1].current_pwd,
                                         chan.pwd))
    /\ UNCHANGED <<otherParts, pc, handle, ptyb, modeDet, pwdDet, chan, ps>>

Receiver_changed_closed_first(w, ch) ==
    IF ch.closed THEN "Err"
    ELSE IF ch.version # w.seen THEN "Ok"
    ELSE "Pending"

\* watch::Receiver::changed: Ok when the channel holds a version the receiver
\* has not seen, Err when the sender is gone, pending otherwise
Receiver_changed(w, ch) ==
    IF ch.version # w.seen THEN "Ok"
    ELSE IF ch.closed THEN "Err"
    ELSE "Pending"

watcher_observes_uncached(w, ch) ==
    [w EXCEPT !.seen = ch.version, !.obs = <<ch.value>>,
              !.born = ch.version]

\* ModeWatcher::changed / PwdWatcher::changed after inner.changed() gave Ok:
\* the version is marked seen, the borrowed value is cached in last_known
watcher_observes(w, ch) ==
    [w EXCEPT !.seen = ch.version, !.last_known = ch.value,
              !.obs = <<ch.value>>, !.born = ch.version]

\* PwdWatcher::changed keeps waiting while the slot holds the initial None
keeps_waiting(w, ch) == w.kind = "pwd" /\ ch.value = Nothing

Returns(w, ret) == [w EXCEPT !.ret = ret, !.n = @ + 1, !.waiting = Nothing]

\* the calls made on the watchers so far: those that returned and those
\* that wait
RECURSIVE WatcherCalls(_)
WatcherCalls(ws) ==
    IF ws = <<>> THEN 0
    ELSE Head(ws).n + (IF Head(ws).waiting # Nothing THEN 1 ELSE 0)
         + WatcherCalls(Tail(ws))

Callable(i) ==
    /\ i \in 1..Len(watchers)
    /\ watchers[i].waiting = Nothing
    /\ WatcherCalls(watchers) < MaxWatcherCalls

\* ModeWatcher::changed / PwdWatcher::changed, at the step where it returns
\* (or, for PwdWatcher, goes round its loop)
Changed ==
    /\ \E i \in 1..Len(watchers) :
        LET w == watchers[i]
            ch == chan[w.kind]
            r == Receiver_changed(w, ch)
        IN  /\ Callable(i)
            /\ r # "Pending"
            /\ watchers' =
                 [watchers EXCEPT ![i] =
                    IF r = "Err"
                    THEN Returns(w, [NoReturn EXCEPT !.op = "changed"])
                    ELSE IF keeps_waiting(w, ch)
                    THEN [w EXCEPT !.seen = ch.version]
                    ELSE Returns(watcher_observes(w, ch),
                                 [NoReturn EXCEPT !.op = "changed",
                                                  !.value = <<ch.value>>])]
    /\ UNCHANGED <<otherParts, pc, handle, ptyb, modeDet, pwdDet, chan, ps>>

\* ModeWatcher::next_event / PwdWatcher::next_event: previous is read from
\* last_known before changed() is awaited
NextEvent ==
    /\ \E i \in 1..Len(watchers) :
        LET w == watchers[i]
            ch == chan[w.kind]
            r == Receiver_changed(w, ch)
        IN  /\ Callable(i)
            /\ r # "Pending"
            /\ watchers' =
                 [watchers EXCEPT ![i] =
                    IF r = "Err"
                    THEN Returns(w, [NoReturn EXCEPT !.op = "next_event"])
                    ELSE IF keeps_waiting(w, ch)
                    THEN [w EXCEPT !.seen = ch.version]
                    ELSE Returns(watcher_observes(w, ch),
                                 [NoReturn EXCEPT
                                    !.op = "next_event",
                                    !.value = <<ch.value>>,
                                    !.previous = <<w.last_known>>,
                                    !.current = <<ch.value>>])]
    /\ UNCHANGED <<otherParts, pc, handle, ptyb, modeDet, pwdDet, chan, ps>>

wait_for_reached_any(mode, target) == TRUE

\* `if self.current() == target` and `if mode == target` of wait_for
wait_for_reached(mode, target) == mode = target

\* ModeWatcher::wait_for up to its first await: it returns at once or starts
\* to wait
WaitFor ==
    /\ \E i \in 1..Len(watchers), target \in {"Standard", "Alternate"} :
        LET w == watchers[i]
        IN  /\ Callable(i)
            /\ w.kind = "mode"
            /\ watchers' =
                 [watchers EXCEPT ![i] =
                    IF wait_for_reached(chan.mode.value, target)
                    THEN Returns(w, [NoReturn EXCEPT !.op = "wait_for",
                                                     !.value = <<target>>,
                                                     !.target = target,
                                                     !.immediate = TRUE])
                    ELSE [w EXCEPT !.waiting = Some(target)]]
    /\ UNCHANGED <<otherParts, pc, handle, ptyb, modeDet, pwdDet, chan, ps>>

\* one round of `while let Some(mode) = self.changed().await` in wait_for
WaitForLoop ==
    /\ \E i \in 1..Len(watchers) :
        LET w == watchers[i]
            r == Receiver_changed(w, chan.mode)
        IN  /\ w.waiting # Nothing
            /\ r # "Pending"
            /\ watchers' =
                 [watchers EXCEPT ![i] =
                    IF r = "Err"
                    THEN Returns(w, [NoReturn EXCEPT !.op = "wait_for",
                                                     !.target = w.waiting[1]])
                    ELSE IF wait_for_reached(chan.mode.value, w.waiting[1])
                    THEN Returns(watcher_observes(w, chan.mode),
                                 [NoReturn EXCEPT !.op = "wait_for",
                                                  !.value = <<w.waiting[1]>>,
                                                  !.target = w.waiting[1]])
                    ELSE watcher_observes(w, chan.mode)]
    /\ UNCHANGED <<otherParts, pc, handle, ptyb, modeDet, pwdDet, chan, ps>>

\* a fresh PtyBuilder: no detection asked for, no PTY yet
InitWatch ==
    /\ FreshBuilder /\ Idle({})
    /\ pc = "main" /\ status = <<>> /\ held = <<>> /\ inputQ = <<>>
    /\ outputQ = <<>> /\ resizeQ = <<>> /\ toRemote = <<>>
    /\ exitSlot = <<>> /\ handle = "none" /\ closed = FALSE
    /\ modeDet = Nothing /\ pwdDet = Nothing
    /\ clock = [drain |-> 0, sleep |-> 0]
    /\ recvLog = <<>>
    /\ readLog = [batches |-> <<>>, eos |-> FALSE]
    /\ callLog = [write |-> <<>>, resize |-> <<>>]
    /\ waitResult = <<>>

NextWatch ==
    \/ WithModeDetection
    \/ WithModeDetectionConfig
    \/ WithPwdDetection
    \/ WithPwdDetectionConfig
    \/ OpenWatched
    \/ FeedPiece
    \/ TaskEnds
    \/ EndSession
    \/ WatchMode
    \/ WatchPwd
    \/ Changed
    \/ NextEvent
    \/ WaitFor
    \/ WaitForLoop

SpecWatch == InitWatch /\ [][NextWatch]_vars

(***************************************************************************)
(* PTY history buffer and its watchers (pty_history.rs)                    *)
(***************************************************************************)
MaxHistFeeds == 3
MaxHistWatchers == 1
MaxHistCalls == 2
LongLine == 600

\* PtyHistoryConfig::default
PtyHistoryConfig_default ==
    [enabled |-> FALSE, max_lines |-> 1000, max_memory_bytes |-> 1024 * 1024]

\* PtyHistoryConfig::new
PtyHistoryConfig_new == [PtyHistoryConfig_default EXCEPT !.enabled = TRUE]

\* PtyHistoryConfig::lines
lines(config, count) ==
    [config EXCEPT !.max_lines = IF count > 1 THEN count ELSE 1]

\* parse_memory_limit on a limit already split into its number and its
\* upper-cased suffix: a raw number, or a number times a power of 1024, and
\* never below 1024
parse_memory_limit(input) ==
    LET multiplier == CASE input.suffix = "" -> 1
                        [] input.suffix \in {"K", "KB", "KIB"} -> 1024
                        [] input.suffix \in {"M", "MB", "MIB"} -> 1024 * 1024
                        [] OTHER -> 1024 * 1024 * 1024
        bytes == input.num * multiplier
    IN  IF bytes > 1024 THEN bytes ELSE 1024

\* PtyHistoryConfig::memory
memory(config, limit) ==
    [config EXCEPT !.max_memory_bytes = parse_memory_limit(limit)]

\* the history configurations: lines(0), lines(1), lines(2) and
\* memory("100"), memory("1K")
HistConfigs ==
    {memory(lines(PtyHistoryConfig_new, count), limit) :
        count \in 0..2,
        limit \in {[num |-> 100, suffix |-> ""], [num |-> 1, suffix |-> "K"]}}

\* PtyHistory::new; text and feeds are history: the text fed so far, the
\* number of feed() calls
PtyHistory_new(config) ==
    [config |-> config, entries |-> <<>>, current_memory |-> 0,
     event_tx |-> watch_channel(<<0, <<>>>>), pending |-> <<>>,
     text |-> <<>>, feeds |-> 0]

Replacement == 65533

\* the second byte of a well-formed two-byte character
SecondOfPair(data, i) ==
    i > 1 /\ data[i - 1] >= 194 /\ data[i - 1] <= 223 /\ Cont(data[i])

\* String::from_utf8_lossy for data made of ASCII bytes, two-byte characters
\* and stray bytes: a well-formed pair gives its character, every other byte
\* above 127 gives U+FFFD
from_utf8_lossy(data) ==
    LET n == Len(data)
        FirstOfPair(i) == i < n /\ SecondOfPair(data, i + 1)
        starts == SelectSeq([i \in 1..n |-> i],
                            LAMBDA i : ~SecondOfPair(data, i))
        char(i) == IF data[i] < 128 THEN data[i]
                   ELSE IF FirstOfPair(i)
                   THEN (data[i] - 192) * 64 + (data[i + 1] - 128)
                   ELSE Replacement
    IN  [k \in 1..Len(starts) |-> char(starts[k])]

\* char::len_utf8
len_utf8(ch) == IF ch < 128 THEN 1 ELSE IF ch < 2048 THEN 2 ELSE 3

\* String::len of text[lo..hi]: the number of bytes of its UTF-8 form
RECURSIVE len_between(_, _, _)
len_between(text, lo, hi) ==
    IF lo > hi THEN 0
    ELSE IF lo = hi THEN len_utf8(text[lo])
    ELSE LET mid == (lo + hi) \div 2
         IN  len_between(text, lo, mid) + len_between(text, mid + 1, hi)

String_len(text) == len_between(text, 1, Len(text))

is_ascii_alphabetic(ch) == (ch >= 65 /\ ch <= 90) \/ (ch >= 97 /\ ch <= 122)

\* the outer loop of strip_ansi_codes at a character: ESC is dropped and the
\* character after it is peeked at, every other character is kept
strip_outer(ch) ==
    IF ch = 27 THEN [state |-> "esc", out |-> <<>>]
    ELSE [state |-> "text", out |-> <<ch>>]

\* strip_ansi_codes at one character: after ESC a [ opens a CSI sequence that
\* runs to its first letter, a ] opens an OSC sequence that runs to BEL or to
\* ESC (and a \ after that ESC), anything else is left to the outer loop
strip_step(state, ch) ==
    CASE state = "text" -> strip_outer(ch)
      [] state = "esc" ->
            IF ch = 91 THEN [state |-> "csi", out |-> <<>>]
            ELSE IF ch = 93 THEN [state |-> "osc", out |-> <<>>]
            ELSE strip_outer(ch)
      [] state = "csi" ->
            [state |-> IF is_ascii_alphabetic(ch) THEN "text" ELSE "csi",
             out |-> <<>>]
      [] state = "osc" ->
            [state |-> IF ch = 7 THEN "text"
                       ELSE IF ch = 27 THEN "oscesc" ELSE "osc",
             out |-> <<>>]
      [] OTHER ->
            IF ch = 92 THEN [state |-> "text", out |-> <<>>]
            ELSE strip_outer(ch)

\* strip_ansi_codes over text[lo..hi], entered in state st: the first half,
\* then the second half in the state the first half ends in
RECURSIVE strip_between(_, _, _, _)
strip_between(text, lo, hi, st) ==
    IF lo = hi THEN strip_step(st, text[lo])
    ELSE LET mid == (lo + hi) \div 2
             left == strip_between(text, lo, mid, st)
         IN  CASE left.state \in {"text", "esc", "csi", "osc", "oscesc"} ->
                     LET right == strip_between(text, mid + 1, hi, left.state)
                     IN  [state |-> right.state,
                          out |-> left.out \o right.out]

\* strip_ansi_codes
strip_ansi_codes(text) ==
    IF text = <<>> THEN <<>>
    ELSE strip_between(text, 1, Len(text), "text").out

add_entry_evicts_newest(h, content) ==
    LET RECURSIVE evict(_, _)
        evict(entries, mem) ==
            IF Len(entries) > h.config.max_lines
               \/ mem > h.config.max_memory_bytes
            THEN IF entries # <<>>
                 THEN LET old == entries[Len(entries)]
                          size == String_len(old)
                      IN  evict(SubSeq(entries, 1, Len(entries) - 1),
                                IF mem > size THEN mem - size ELSE 0)
                 ELSE [entries |-> entries, memory |-> mem]
            ELSE [entries |-> entries, memory |-> mem]
        kept == evict(Append(h.entries, content),
                      h.current_memory + String_len(content))
    IN  [h EXCEPT !.entries = kept.entries, !.current_memory = kept.memory]

\* PtyHistory::add_entry: the entry is counted and pushed at the back, then
\* entries are popped from the front while there are more than max_lines of
\* them or the counter is above max_memory_bytes
add_entry(h, content) ==
    LET RECURSIVE evict(_, _)
        evict(entries, mem) ==
            IF Len(entries) > h.config.max_lines
               \/ mem > h.config.max_memory_bytes
            THEN IF entries # <<>>
                 THEN LET old == Head(entries)
                          size == String_len(old)
                      IN  evict(Tail(entries),
                                IF mem > size THEN mem - size ELSE 0)
                 ELSE [entries |-> entries, memory |-> mem]
            ELSE [entries |-> entries, memory |-> mem]
        kept == evict(Append(h.entries, content),
                      h.current_memory + String_len(content))
    IN  [h EXCEPT !.entries = kept.entries, !.current_memory = kept.memory]

\* pending[start..].find('\n'), as a position of pending; 0 for None
find_newline(pending, start) ==
    LET at == {i \in (start + 1)..Len(pending) : pending[i] = 10}
    IN  IF at = {} THEN 0 ELSE CHOOSE i \in at : \A j \in at : i <= j

\* the while loop of PtyHistory::feed from `start` on, and the drain after it:
\* every non-empty line up to a newline is cleaned, added and broadcast with
\* the entry count
RECURSIVE feed_from(_, _)
feed_from(h, start) ==
    LET line_end == find_newline(h.pending, start) IN
    IF line_end = 0
    THEN [h EXCEPT !.pending = SubSeq(@, start + 1, Len(@))]
    ELSE LET line == SubSeq(h.pending, start + 1, line_end - 1)
             cleaned == strip_ansi_codes(line)
             added == add_entry(h, cleaned)
         IN  feed_from(IF line # <<>>
                       THEN [added EXCEPT !.event_tx =
                                watch_send(@, <<Len(added.entries), cleaned>>)]
                       ELSE h,
                       line_end)

\* PtyHistory::feed
PtyHistory_feed(h, data) ==
    LET text == from_utf8_lossy(data)
    IN  feed_from([h EXCEPT !.pending = @ \o text, !.text = @ \o text,
                            !.feeds = @ + 1], 0)

\* what the remote prints: a line, an accented letter cut in two, a line
\* followed by an empty line and by a line of nothing but an escape sequence,
\* a window title and coloured text, a long line
HistChunks ==
    {<<97, 10>>,
     <<98, 195>>, <<169, 10>>,
     <<101, 10, 10, 27, 91, 109, 10>>,
     <<27, 93, 48, 59, 116, 7, 27, 91, 51, 49, 109, 100, 10>>,
     [i \in 1..LongLine |-> 120] \o <<10>>}

\* the remote prints and the actor feeds the history
HistFeed ==
    /\ hist # Nothing
    /\ ~hist[1].event_tx.closed
    /\ hist[1].feeds < MaxHistFeeds
    /\ \E data \in HistChunks : hist' = Some(PtyHistory_feed(hist[1], data))
    /\ UNCHANGED <<sessVars, ptyVars, runVars, hookVars, scpVars, execVars,
                   detVars, hw>>

\* the last owner of the history goes away: its sender is dropped
HistDrop ==
    /\ hist # Nothing
    /\ ~hist[1].event_tx.closed
    /\ hist' = Some([hist[1] EXCEPT !.event_tx = sender_dropped(@)])
    /\ UNCHANGED <<sessVars, ptyVars, runVars, hookVars, scpVars, execVars,
                   detVars, hw>>

\* PtyHistory::create_watcher; waiting, born, ret and n are history: the call
\* that has not returned, the channel version at creation or at the last
\* return, what the last call returned, the number of returns
PtyHistory_create_watcher(h) ==
    [seen |-> Receiver_clone(event_rx), last_known_count |-> Len(h.entries),
     waiting |-> "", born |-> h.event_tx.version, ret |-> Nothing, n |-> 0]

HistCreateWatcher ==
    /\ hist # Nothing
    /\ ~hist[1].event_tx.closed
    /\ Len(hw) < MaxHistWatchers
    /\ hw' = Append(hw, PtyHistory_create_watcher(hist[1]))
    /\ UNCHANGED <<sessVars, ptyVars, runVars, hookVars, scpVars, execVars,
                   detVars, hist>>

\* a call on a history watcher returns
HistReturns(w, op, value, ch) ==
    [w EXCEPT !.waiting = "", !.born = ch.version, !.n = @ + 1,
              !.ret = Some([op |-> op, value |-> value])]

\* HistoryWatcher::changed, polled
HistoryWatcher_changed(w, ch) ==
    CASE Receiver_changed(w, ch) = "Ok" ->
            HistReturns([w EXCEPT !.seen = ch.version,
                                  !.last_known_count = ch.value[1]],
                        "changed", Some(ch.value), ch)
      [] Receiver_changed(w, ch) = "Err" ->
            HistReturns(w, "changed", Nothing, ch)
      [] OTHER -> [w EXCEPT !.waiting = "changed"]

wait_for_new_any_count(w, ch) ==
    CASE Receiver_changed(w, ch) = "Ok" ->
            HistReturns([w EXCEPT !.seen = ch.version,
                                  !.last_known_count = ch.value[1]],
                        "wait_for_new", Some(ch.value), ch)
      [] Receiver_changed(w, ch) = "Err" ->
            HistReturns(w, "wait_for_new", Nothing, ch)
      [] OTHER -> [w EXCEPT !.waiting = "wait_for_new"]

\* HistoryWatcher::wait_for_new, polled: one round of its loop; it returns
\* the borrowed value only if its count is above last_known_count
wait_for_new(w, ch) ==
    CASE Receiver_changed(w, ch) = "Ok" ->
            IF ch.value[1] > w.last_known_count
            THEN HistReturns([w EXCEPT !.seen = ch.version,
                                       !.last_known_count = ch.value[1]],
                             "wait_for_new", Some(ch.value), ch)
            ELSE [w EXCEPT !.seen = ch.version, !.waiting = "wait_for_new"]
      [] Receiver_changed(w, ch) = "Err" ->
            HistReturns(w, "wait_for_new", Nothing, ch)
      [] OTHER -> [w EXCEPT !.waiting = "wait_for_new"]

RECURSIVE HistCalls(_)
HistCalls(ws) ==
    IF ws = <<>> THEN 0
    ELSE Head(ws).n + (IF Head(ws).waiting # "" THEN 1 ELSE 0)
         + HistCalls(Tail(ws))

\* a call of changed() begins and is polled for the first time
HistChanged ==
    /\ hist # Nothing
    /\ HistCalls(hw) < MaxHistCalls
    /\ \E i \in 1..Len(hw) :
         /\ hw[i].waiting = ""
         /\ hw' = [hw EXCEPT ![i] =
                       HistoryWatcher_changed(@, hist[1].event_tx)]
    /\ UNCHANGED <<sessVars, ptyVars, runVars, hookVars, scpVars, execVars,
                   detVars, hist>>

\* a call of wait_for_new() begins and is polled for the first time
HistWaitForNew ==
    /\ hist # Nothing
    /\ HistCalls(hw) < MaxHistCalls
    /\ \E i \in 1..Len(hw) :
         /\ hw[i].waiting = ""
         /\ hw' = [hw EXCEPT ![i] = wait_for_new(@, hist[1].event_tx)]
    /\ UNCHANGED <<sessVars, ptyVars, runVars, hookVars, scpVars, execVars,
                   detVars, hist>>

\* a waiting call is woken by the channel and polled again
HistWakes ==
    /\ hist # Nothing
    /\ \E i \in 1..Len(hw) :
         /\ hw[i].waiting # ""
         /\ Receiver_changed(hw[i], hist[1].event_tx) # "Pending"
         /\ hw' = [hw EXCEPT ![i] =
                       IF @.waiting = "changed"
                       THEN HistoryWatcher_changed(@, hist[1].event_tx)
                       ELSE wait_for_new(@, hist[1].event_tx)]
    /\ UNCHANGED <<sessVars, ptyVars, runVars, hookVars, scpVars, execVars,
                   detVars, hist>>

InitHistory ==
    /\ FreshBuilder /\ NoPty /\ Idle({"hist"})
    /\ \E config \in HistConfigs : hist = Some(PtyHistory_new(config))
    /\ hw = <<>>

NextHistory ==
    \/ HistFeed
    \/ HistDrop
    \/ HistCreateWatcher
    \/ HistChanged
    \/ HistWaitForNew
    \/ HistWakes

SpecHistory == InitHistory /\ [][NextHistory]_vars

\* the history is fed and nobody watches it
InitHistFeed == InitHistory

NextHistFeed == HistFeed

SpecHistFeed == InitHistFeed /\ [][NextHistFeed]_vars

(***************************************************************************)
(* Properties of the session builder and the session state machine         *)
(***************************************************************************)
NonCloseOps ==
    {"run", "exec", "system", "cmd", "scp", "pty", "pty_open", "pty_run"}

\* C1: on a built, never connected session of any authentication variant
\* every run/exec/system/cmd/scp/pty/pty_builder().open()/run() fails with
\* "No open session", no channel is opened, no local file is opened and the
\* terminal is not put in raw mode; close() returns Ok and leaves the session
\* as it was; this holds after any sequence of such calls.
C1_DisconnectedOpsFail ==
    (phase = "session" /\ ~sess.session) =>
        /\ transport.channels = 0
        /\ transport.disconnects = 0
        /\ ~local.file
        /\ ~local.terminal
        /\ lastOp.op \in NonCloseOps => lastOp.result = "No open session"
        /\ lastOp.op = "close" =>
              (lastOp.result = "Ok" /\ sess = lastOp.before)

C1_Witness ==
    /\ phase = "session"
    /\ ~sess.session
    /\ sess.variant = "PubKey"
    /\ lastOp.op = "scp"
    /\ lastOp.result = "No open session"

\* C2: after close() has returned on a Connected session the transport
\* handle is absent, so a later exec/cmd/system/run/scp/pty fails with
\* "No open session" and a further close() drives no second Disconnect.
C2_CloseDropsHandle ==
    /\ (lastOp.op = "close" /\ lastOp.before.session) => ~sess.session
    /\ transport.disconnects <= 1
    /\ (transport.disconnects >= 1 /\ lastOp.op \in NonCloseOps) =>
          lastOp.result = "No open session"

\* the value given by the last builder call of a kind, None if there was none
RECURSIVE LastCall(_, _)
LastCall(kind, n) ==
    IF n = 0 THEN None
    ELSE IF calls[n][1] = kind THEN calls[n][2]
    ELSE LastCall(kind, n - 1)

\* C3: build always succeeds and selects exactly one variant by the priority
\* key > password > none whatever the order of the builder calls: a key gives
\* PubKey carrying the optional certificate even when a password is set, a
\* password without a key gives Passwd, neither gives NoAuth; the built
\* session is Disconnected.
C3_BuildPriority ==
    lastOp.op = "build" =>
        LET key == LastCall("key", Len(calls))
            passwd == LastCall("passwd", Len(calls))
            cert == LastCall("cert", Len(calls))
        IN  /\ lastOp.result = "Ok"
            /\ phase = "session"
            /\ ~sess.session
            /\ key # None =>
                  /\ sess.variant = "PubKey"
                  /\ sess.data.key = key
                  /\ sess.data.cert = cert
            /\ (key = None /\ passwd # None) =>
                  /\ sess.variant = "Passwd"
                  /\ sess.data.passwd = passwd
            /\ (key = None /\ passwd = None) => sess.variant = "NoAuth"

\* a key set after a password
C3_Witness ==
    /\ lastOp.op = "build"
    /\ Len(calls) = 2
    /\ calls[1] = <<"passwd", "secret">>
    /\ calls[2] = <<"key", "id_rsa">>
    /\ sess.variant = "PubKey"

\* C4: connect returns a Connected session only if address resolution, the
\* transport connection and the authentication succeeded and the
\* authentication reported success; an authentication that reports no
\* success gives the authentication-failed error of the method and leaves no
\* session and no live handle; a successful connect keeps the variant and
\* the configuration chosen at build time.
C4_ConnectOutcome ==
    lastOp.op = "connect" =>
        LET env == lastOp.env
            before == lastOp.before
        IN  /\ (phase = "session" /\ sess.session) <=> lastOp.result = "Ok"
            /\ lastOp.result = "Ok" =>
                  /\ env.resolve = "ok"
                  /\ env.tcp = "ok"
                  /\ env.auth = "success"
                  /\ before.variant = "PubKey" => env.keyload = "ok"
                  /\ (before.variant = "PubKey" /\ before.data.cert # None)
                        => env.certload = "ok"
                  /\ sess.variant = before.variant
                  /\ sess.data = before.data
                  /\ transport.live = 1
            /\ env.auth = "failure" =>
                  /\ phase = "consumed"
                  /\ transport.live = 0
                  /\ before.variant = "Passwd" =>
                        lastOp.result = "Authentication (with passwd) failed"
                  /\ before.variant = "NoAuth" =>
                        lastOp.result = "Authentication None failed"
                  /\ (before.variant = "PubKey" /\ before.data.cert = None)
                        => lastOp.result =
                              "Authentication (with publickey) failed"
                  /\ (before.variant = "PubKey" /\ before.data.cert # None)
                        => lastOp.result =
                              "Authentication (with publickey+cert) failed"

C4_Witness ==
    /\ lastOp.op = "connect"
    /\ lastOp.env.auth = "failure"
    /\ lastOp.before.variant = "PubKey"
    /\ lastOp.before.data.cert # None
    /\ phase = "consumed"

(***************************************************************************)
(* Properties of the PTY actor and the PTY handle                          *)
(***************************************************************************)
IsData(msg) == msg.kind = "Data"
IsTerminating(msg) == msg.kind \in {"ExitStatus", "ExitSignal", "None"}

\* the Data batches channel.wait() has returned, in arrival order
RECURSIVE DataOf(_)
DataOf(log) ==
    IF log = <<>> THEN <<>>
    ELSE IF IsData(Head(log)) THEN <<Head(log).data>> \o DataOf(Tail(log))
    ELSE DataOf(Tail(log))

Delivered == DataOf(recvLog)

\* the index of the first terminating message received, 0 if there is none
RECURSIVE FirstTerminating(_, _)
FirstTerminating(log, i) ==
    IF i > Len(log) THEN 0
    ELSE IF IsTerminating(log[i]) THEN i
    ELSE FirstTerminating(log, i + 1)

C6_ExitStatusFixed ==
    LET i == FirstTerminating(recvLog, 1)
        first == recvLog[i]
    IN  /\ status # <<>> =>
              /\ i > 0
              /\ first.kind = "ExitStatus" =>
                    status[1] =
                       PtyExitStatus("Code", first.exit_status, "", FALSE, "")
              /\ first.kind = "ExitSignal" =>
                    status[1] =
                       PtyExitStatus("Signal", 0, first.signal_name,
                                     first.core_dumped, first.error_message)
              /\ first.kind = "None" =>
                    status[1] = PtyExitStatus("ChannelClosed", 0, "", FALSE, "")
        /\ try_wait # <<>> => (try_wait = status /\ pc = "done")
        /\ pc = "done" => try_wait # <<>>
        /\ (waitResult # <<>> /\ waitResult[1].ok) =>
              /\ try_wait # <<>>
              /\ waitResult[1].status = try_wait[1]

\* wait() has returned Code(3) although an exit signal arrived in the drain
C6_Witness ==
    /\ waitResult # <<>>
    /\ waitResult[1].ok
    /\ waitResult[1].status.kind = "Code"
    /\ waitResult[1].status.code = 3
    /\ Len(recvLog) >= 2
    /\ recvLog[1].kind = "ExitStatus"
    /\ recvLog[2].kind = "ExitSignal"

\* C7: dropping a PtyHandle without wait() aborts the actor: after the drop
\* the actor forwards nothing to the remote, receives no channel message and
\* publishes no exit status; wait() consumes the handle without aborting, and
\* returns only when the actor has run to its end.
C7_DropAborts ==
    /\ [](handle = "dropped" => pc \in {"aborted", "done", "failed"})
    /\ [](handle \in {"waiting", "waited"} => pc # "aborted")
    /\ [](handle = "waited" => pc \in {"done", "failed"})
    /\ [][handle = "dropped" =>
             UNCHANGED <<toRemote, recvLog, exitSlot, outputQ, pc>>]_vars

\* the handle was dropped with input still queued and the loop running
C7_Witness ==
    /\ handle = "dropped"
    /\ pc = "aborted"
    /\ inputQ # <<>>
    /\ exitSlot = <<>>

WriteTag(k) == <<96 + k>>

\* C8: write returns the input-channel-closed error, and enqueues nothing,
\* when called after close() or after the actor task has exited; resize
\* returns the resize-channel-closed error after the actor has exited;
\* otherwise write and resize enqueue and return Ok; only bytes of writes
\* that returned Ok reach the remote.
C8_WriteResizeErrors ==
    /\ [][/\ Len(callLog'.write) = Len(callLog.write) + 1 =>
                IF closed \/ pc \in {"done", "failed"}
                THEN /\ callLog'.write[Len(callLog'.write)] =
                           "PTY input channel closed"
                     /\ inputQ' = inputQ
                ELSE /\ callLog'.write[Len(callLog'.write)] = "Ok"
                     /\ inputQ' =
                           Append(inputQ, WriteTag(Len(callLog'.write)))
          /\ Len(callLog'.resize) = Len(callLog.resize) + 1 =>
                IF pc \in {"done", "failed"}
                THEN /\ callLog'.resize[Len(callLog'.resize)] =
                           "PTY resize channel closed"
                     /\ resizeQ' = resizeQ
                ELSE /\ callLog'.resize[Len(callLog'.resize)] = "Ok"
                     /\ Len(resizeQ') = Len(resizeQ) + 1
         ]_vars
    /\ [](\A i \in 1..Len(toRemote) :
            toRemote[i].kind = "Data" =>
               \E k \in 1..Len(callLog.write) :
                  /\ toRemote[i].data = WriteTag(k)
                  /\ callLog.write[k] = "Ok")

\* a write before close() returned Ok and reached the remote, a write after
\* close() failed
C8_Witness ==
    /\ closed
    /\ callLog.write = <<"Ok", "PTY input channel closed">>
    /\ \E i \in 1..Len(toRemote) : toRemote[i].data = WriteTag(1)

\* the mode the batches leave: each batch of DataPayloads ends in a
\* complete alt-screen sequence
ExpectedMode(batches) ==
    IF batches = <<>> THEN "Standard"
    ELSE IF batches[Len(batches)] = EnterAltBytes THEN "Alternate"
    ELSE "Standard"

\* the directory the batches report: only ExitAltPwdBytes reports one, "/a"
ExpectedPwd(batches) ==
    IF \E i \in 1..Len(batches) : batches[i] = ExitAltPwdBytes
    THEN Some(<<47, 97>>)
    ELSE Nothing

\* C9: the detectors are fed a Data message before it is enqueued on the
\* output queue: whenever read() has returned n batches, current_mode() and
\* current_pwd() reflect the escape sequences of the first m delivered
\* batches for some m >= n.
C9_DetectorsFedFirst ==
    LET n == Len(readLog.batches) IN
    /\ modeDet # Nothing =>
          \E m \in n..Len(Delivered) :
             modeDet[1].current_mode = ExpectedMode(SubSeq(Delivered, 1, m))
    /\ pwdDet # Nothing =>
          \E m \in n..Len(Delivered) :
             pwdDet[1].current_pwd = ExpectedPwd(SubSeq(Delivered, 1, m))

\* read() has just returned the batch that leaves the alternate screen and
\* reports the directory
C9_Witness ==
    /\ modeDet # Nothing
    /\ pwdDet # Nothing
    /\ readLog.batches = <<EnterAltBytes, ExitAltPwdBytes>>
    /\ modeDet[1].current_mode = "Standard"
    /\ pwdDet[1].current_pwd = Some(<<47, 97>>)

\* C10: the drain phase ends at most 1 second after it began, however many
\* Data messages arrive during the drain and whatever the state of the
\* output queue.
C10_DrainBounded ==
    pc \in {"drain", "drainsend"} => clock.drain <= DrainTimeoutTicks

(***************************************************************************)
(* Properties of the panic hook                                            *)
(***************************************************************************)
\* C13: however many setup_panic_hook calls are made, one after the other or
\* at the same time, the restoring hook is installed at most once and is the
\* process hook once a call has returned; the hook that was installed before
\* the first call is stored once, is never the restoring hook itself, and a
\* panic runs the terminal cleanup and then that hook.
C13_HookInstalledOnce ==
    /\ hook.installs <= 1
    /\ hook.stores <= 1
    /\ hook.prev # <<"restoring">>
    /\ hook.prev # <<>> => hook.prev = <<hook.initial>>
    /\ (\E t \in Threads : threads[t].pc = "idle" /\ threads[t].calls > 0) =>
          /\ hook.once = "done"
          /\ hook.installs = 1
          /\ hook.stores = 1
          /\ hook.current = "restoring"
    /\ (hook.log # <<>> /\ hook.log[1] = "terminal_cleanup") =>
          hook.log = <<"terminal_cleanup", hook.initial>>

\* both threads have called twice, and a panic ran the cleanup and then the
\* hook of the process
C13_Witness ==
    /\ \A t \in Threads : threads[t].pc = "idle" /\ threads[t].calls = 2
    /\ hook.initial = "user"
    /\ hook.log = <<"terminal_cleanup", "user">>

(***************************************************************************)
(* Properties of the interactive runner                                    *)
(***************************************************************************)
\* C11: when run() returns Ok(v), the PTY ended with a status st that wait()
\* returned, and v is c if st is Code(c) and 255 if st is Signal or
\* ChannelClosed; run() returns Ok whenever wait() returned a status and the
\* last flush succeeded; code() is Some(c) exactly for Code(c).
C11_RunnerExitCode ==
    /\ status # <<>> =>
          /\ status[1].kind = "Code" => code(status[1]) = <<status[1].code>>
          /\ status[1].kind \in {"Signal", "ChannelClosed"} =>
                code(status[1]) = <<>>
    /\ (run.pc = "returned" /\ run.result[1].ok) =>
          /\ waitResult # <<>>
          /\ waitResult[1].ok
          /\ waitResult[1].status.kind = "Code" =>
                run.result[1].value = waitResult[1].status.code
          /\ waitResult[1].status.kind \in {"Signal", "ChannelClosed"} =>
                run.result[1].value = 255
    /\ (run.pc = "returned" /\ waitResult # <<>> /\ waitResult[1].ok) =>
          (run.result[1].ok \/ run.result[1].err = "flush")

\* run() has returned 255 for a PTY that ended with a signal
C11_Witness ==
    /\ run.pc = "returned"
    /\ run.result[1].ok
    /\ run.result[1].value = 255
    /\ waitResult[1].status.kind = "Signal"

\* C12: when run() was started with raw_mode and returns after raw mode was
\* enabled, then on every path the restore sequence was written, then raw
\* mode was disabled, then pending stdin was drained, and raw mode is off.
C12_TerminalRestored ==
    (run.pc = "returned" /\ run.term # <<>> /\ run.term[1] = "raw_on") =>
       /\ run.term = <<"raw_on", "reset", "raw_off", "drain">>
       /\ ~run.raw

(***************************************************************************)
(* Properties of the SCP uploader                                          *)
(***************************************************************************)
RECURSIVE ConcatBytes(_)
ConcatBytes(items) ==
    IF items = <<>> THEN <<>>
    ELSE Head(items).bytes \o ConcatBytes(Tail(items))

\* the file-name component of the remote paths of ScpPaths that have one
ExpectedBasename(raw) == IF raw = "/tmp/x.txt" THEN "x.txt" ELSE ""

\* C14: when scp() returns Ok, what it sent is: the exec command
\* 'scp -t <remote_path>', the line 'C0644 <size> <basename>\n' with the
\* file-name component of the remote path and the length of the local file,
\* the file contents in order in chunks of at most the buffer size, one zero
\* byte, channel EOF, channel close.
C14_UploadBytes ==
    (scp.pc = "returned" /\ scp.result[1].ok) =>
       LET n == Len(scpSent)
           chunks == SubSeq(scpSent, 3, n - 3)
       IN  /\ n >= 5
           /\ scpSent[1] =
                [kind |-> "Exec", text |-> <<"scp -t ", scp.remote_path.raw>>,
                 bytes |-> <<>>]
           /\ scpSent[2] =
                [kind |-> "Data",
                 text |-> <<"C0644 ", ToString(Len(scp.file)), " ",
                            ExpectedBasename(scp.remote_path.raw), "\n">>,
                 bytes |-> <<>>]
           /\ \A i \in 1..Len(chunks) :
                /\ chunks[i].kind = "Data"
                /\ chunks[i].text = <<>>
                /\ Len(chunks[i].bytes) \in 1..ChunkSize
           /\ ConcatBytes(chunks) = scp.file
           /\ scpSent[n - 2] =
                [kind |-> "Data", text |-> <<>>, bytes |-> <<0>>]
           /\ scpSent[n - 1].kind = "Eof"
           /\ scpSent[n].kind = "Close"

\* a file of three bytes was uploaded in two chunks
C14_Witness ==
    /\ scp.pc = "returned"
    /\ scp.result[1].ok
    /\ Len(scp.file) = 3
    /\ Len(scpSent) = 7

\* C15: the metadata line is written only after a zero start
\* acknowledgement, file data and the final zero byte only after a zero
\* metadata acknowledgement, EOF and close only after a zero post-data
\* acknowledgement; exec, metadata, zero byte, EOF and close are each sent at
\* most once and in that order; a non-zero first byte gives the start-failed,
\* confirmation-failed and post-data-confirmation-failed error at the three
\* points, and nothing is written after scp() has returned.
C15_GatedOnAcks ==
    /\ [](LET n == Len(scpSent)
              acks == scp.acks
          IN  /\ n >= 1 => scpSent[1].kind = "Exec"
              /\ \A i \in 2..n : scpSent[i].kind # "Exec"
              /\ n >= 2 => (Len(acks) >= 1 /\ acks[1] = 0)
              /\ n >= 3 => (Len(acks) >= 2 /\ acks[2] = 0)
              /\ \A i \in 1..n :
                   scpSent[i].kind \in {"Eof", "Close"} =>
                      /\ Len(acks) = 3
                      /\ acks[3] = 0
                      /\ i >= n - 1
                      /\ scpSent[n - 2].bytes = <<0>>
              /\ \A k \in 1..Len(acks) :
                   acks[k] # 0 =>
                      /\ k = Len(acks)
                      /\ scp.pc = "returned"
                      /\ ~scp.result[1].ok
                      /\ scp.result[1].err =
                            <<"SCP start failed", "SCP confirmation failed",
                              "SCP post-data confirmation failed">>[k]
                      /\ k = 1 => n = 1
                      /\ k = 2 => n = 2
                      /\ k = 3 => scpSent[n].bytes = <<0>>)
    /\ [][scp.pc = "returned" => scpSent' = scpSent]_vars

\* the metadata acknowledgement was an error report
C15_Witness ==
    /\ scp.pc = "returned"
    /\ scp.acks = <<0, 1>>
    /\ scp.result[1].err = "SCP confirmation failed"
    /\ Len(scpSent) = 2

\* the error the streaming loop gives for a stderr message, an exit status
\* and the end of the channel
StreamingError(msg) ==
    IF msg.kind = "ExtendedData"
    THEN [ok |-> FALSE, err |-> "Remote SCP error", data |-> msg.data,
          exit_status |-> 0]
    ELSE IF msg.kind = "ExitStatus"
    THEN [ok |-> FALSE, err |-> "Remote SCP exited early with code",
          data |-> <<>>, exit_status |-> msg.exit_status]
    ELSE [ok |-> FALSE, err |-> "Channel closed during transfer",
          data |-> <<>>, exit_status |-> 0]

\* C16: when the first stderr message, exit status or channel end of the
\* remote arrives while file data is being streamed, scp() fails with the
\* remote-SCP-error carrying its text, the exited-early error carrying the
\* code, or the channel-closed-during-transfer error, whatever the
\* interleaving with the file reads (a read error or a write timeout apart).
C16_StreamEventsFail ==
    (/\ scp.pc = "returned"
     /\ scp.first_fatal # <<>>
     /\ scp.first_fatal[1].during \in {"stream", "write"}
     /\ scp.result[1].err \notin {"read failed", "Write timed out after 16s"})
    => scp.result[1] = StreamingError(scp.first_fatal[1])

\* C17: the streaming loop is left only when no channel event is pending: no
\* message that arrived before the zero byte was written is still unhandled
\* once the zero byte has been written.
C17_LoopLeftWhenDrained ==
    scp.pc = "ack_eof" =>
       \A i \in 1..Len(scpChan) : scpChan[i].during = "ack_eof"

\* C18: a chunk write still suspended when its 16 seconds have passed ends
\* either by completing at that moment or by scp() returning the
\* write-timed-out error; after that error no chunk, zero byte or EOF has
\* been or is sent, and scp() has not returned Ok.
C18_WriteTimeout ==
    /\ [](scp.pc = "write" => scp.wclock <= WriteTimeoutSecs)
    /\ [][(scp.pc = "write" /\ scp.wclock = WriteTimeoutSecs
              /\ scp'.pc # "write") =>
             \/ /\ scp'.pc = "stream"
                /\ scpSent' = Append(scpSent,
                      [kind |-> "Data", text |-> <<>>, bytes |-> scp.chunk])
             \/ /\ scp'.pc = "returned"
                /\ ~scp'.result[1].ok
                /\ scp'.result[1].err = "Write timed out after 16s"
                /\ scpSent' = scpSent]_vars
    /\ []((scp.pc = "returned"
             /\ scp.result[1].err = "Write timed out after 16s") =>
            /\ ~scp.result[1].ok
            /\ scp.wclock = WriteTimeoutSecs
            /\ Len(scpSent) >= 2
            /\ ConcatBytes(SubSeq(scpSent, 3, Len(scpSent))) =
                  SubSeq(scp.file, 1, scp.off)
            /\ scp.off < Len(scp.file)
            /\ \A i \in 1..Len(scpSent) :
                 scpSent[i].kind \notin {"Eof", "Close"})
    /\ [][scp.pc = "returned" => UNCHANGED <<scp, scpSent>>]_vars

\* the second chunk of a file timed out after the first was sent
C18_Witness ==
    /\ scp.pc = "returned"
    /\ scp.result[1].err = "Write timed out after 16s"
    /\ Len(scpSent) = 3
    /\ scp.off > 0

(***************************************************************************)
(* Properties of command execution                                         *)
(***************************************************************************)

RECURSIVE Forwarded(_, _, _)
Forwarded(seen, kind, ext) ==
    IF seen = <<>> THEN <<>>
    ELSE (IF Head(seen).kind = kind /\ Head(seen).ext = ext
          THEN Head(seen).data ELSE <<>>)
         \o Forwarded(Tail(seen), kind, ext)

ExitCodes(seen) ==
    SelectSeq(seen, LAMBDA m : m.kind = "ExitStatus")

LocalFailure ==
    ex.result \in {<<ExErr("No open session")>>, <<ExErr("channel")>>,
                   <<ExErr("io")>>}

\* C19: as long as the writes to the local streams succeed, system() leaves
\* its loop only when the channel has ended, whatever came after an exit
\* status; it has forwarded every Data message to stdout if out is set and
\* nothing otherwise, every ExtendedData message of extension 1 to stderr if
\* err is set and nothing otherwise, messages after the exit status included;
\* out and err are set for run() and clear for exec, system and cmd; the
\* result is the exit status recorded last, or the error "program did not
\* exit cleanly" when there was none.
C19_ExecDrains ==
    (ex.pc \in {"loop", "done"} /\ ex.op # "pty" /\ ~LocalFailure) =>
        /\ ex.out = (ex.op = "run")
        /\ ex.err = (ex.op = "run")
        /\ ex.stdout = IF ex.out THEN Forwarded(ex.seen, "Data", 0) ELSE <<>>
        /\ ex.stderr = IF ex.err THEN Forwarded(ex.seen, "ExtendedData", 1)
                       ELSE <<>>
        /\ ex.pc = "done" =>
            /\ ex.ended
            /\ ex.result =
                 IF ExitCodes(ex.seen) = <<>>
                 THEN <<ExErr("program did not exit cleanly")>>
                 ELSE <<ExOk(ExitCodes(ex.seen)[Len(ExitCodes(ex.seen))]
                                .exit_status)>>

\* run() has returned the exit status 1 after forwarding the stdout and the
\* stderr data that followed the exit status
C19_Witness ==
    /\ ex.pc = "done" /\ ex.op = "run" /\ ex.ended
    /\ Len(ex.seen) = 3
    /\ ex.seen[1].kind = "ExitStatus"
    /\ ex.stdout = <<2>> /\ ex.stderr = <<3>>
    /\ ex.result = <<ExOk(1)>>

EscapedJoin(v) == join([i \in 1..Len(v) |-> escape(v[i])], Space)

\* C20: the command submitted by exec(argv) is the elements of argv, each
\* shell-escaped, joined by single spaces; cmd(s) submits s as it is; run()
\* and a PTY opened without a command of its own submit the configured
\* command vector joined in the same shell-escaped way.
C20_CommandEscaped ==
    ex.command # <<>> =>
        /\ ex.op = "exec" => ex.command[1] = EscapedJoin(ex.argv)
        /\ ex.op = "cmd" => ex.command[1] = ex.text
        /\ ex.op = "run" => ex.command[1] = EscapedJoin(cmdv)
        /\ (ex.op = "pty" /\ ex.argv = <<>>) =>
               ex.command[1] = EscapedJoin(cmdv)

(***************************************************************************)
(* Properties of the parsers and the detectors                             *)
(***************************************************************************)

IsModeStream == \A i \in 1..Len(ps.stream) : ps.stream[i] \in ModePieces

IsPwdStream ==
    ps.stream # <<>> /\ \A i \in 1..Len(ps.stream) : ps.stream[i] \in PwdPieces

Fed == SubSeq(ps.bytes, 1, ps.pos)

\* the pieces fed to their last byte
Completed == {n \in 1..Len(ps.stream) :
                 Len(Flatten(SubSeq(ps.stream, 1, n))) <= ps.pos}

EndsAt(bytes, q, s) ==
    q >= Len(s) /\ SubSeq(bytes, q - Len(s) + 1, q) = s

\* ESC [ ? 47 h, ESC [ ? 1049 h and ESC [ ? 47 l, ESC [ ? 1049 l
AltSequenceOf(event) ==
    IF event = "EnterAltMode"
    THEN {<<27, 91, 63, 52, 55, 104>>, <<27, 91, 63, 49, 48, 52, 57, 104>>}
    ELSE {<<27, 91, 63, 52, 55, 108>>, <<27, 91, 63, 49, 48, 52, 57, 108>>}

\* the positions up to q at which one of the four sequences ends
AltEnds(q) ==
    {e \in 1..q : \E ev \in {"EnterAltMode", "ExitAltMode"} :
                     \E s \in AltSequenceOf(ev) : EndsAt(ps.bytes, e, s)}

\* C21: however the bytes sent so far were split into feed calls, the
\* alt-screen parser has returned the events, and is in the state, that one
\* feed call with all those bytes gives a fresh parser; and it has returned
\* no more events than sequences have been fed to their final byte.
C21_AltParserResumable ==
    (IsModeStream /\ modeDet # Nothing) =>
        LET one == EscapeSequenceParser_feed(
                       EscapeSequenceParser_new(
                           ptyb.mode_detection_config[1].buffer_size),
                       Fed)
        IN  /\ ps.events = one.events
            /\ modeDet[1].parser = one.p
            /\ Len(ps.events) <= Cardinality(AltEnds(ps.pos))

\* ESC [ ? 1049 h was cut inside and the event came with its last byte
C21_Witness ==
    /\ ps.stream = <<PieceEnter1049>>
    /\ ps.mid
    /\ ps.pos = Len(ps.bytes)
    /\ ps.events = <<"EnterAltMode">>

OtherPieces == {PieceMode1048, PieceOtherCsi, PieceLoneEscape, PieceBinary}

\* C22: a feed call returns EnterAltMode only if ESC [ ? 47 h or
\* ESC [ ? 1049 h ends within the bytes of the call, and ExitAltMode only if
\* ESC [ ? 47 l or ESC [ ? 1049 l does; after other private modes, other CSI
\* sequences, an escape followed by another byte than '[' and binary data
\* nothing has been emitted and the parser is in Normal with an empty buffer.
C22_AltEventsOnlyForAltSequences ==
    /\ [][\A i \in (Len(ps.events) + 1)..Len(ps'.events) :
             \E q \in (ps.pos + 1)..(ps'.pos) :
                 \E s \in AltSequenceOf(ps'.events[i]) :
                     EndsAt(ps.bytes, q, s)]_vars
    /\ []((/\ modeDet # Nothing
           /\ \A i \in 1..Len(ps.stream) : ps.stream[i] \in OtherPieces
           /\ ps.pos \in PieceEnds(ps.stream) \cup {0})
          => /\ ps.events = <<>>
             /\ modeDet[1].parser.state = "Normal"
             /\ modeDet[1].parser.buffer = <<>>
             /\ modeDet[1].current_mode = "Standard")

\* ESC [ ? 1048 h emitted nothing, the ESC [ ? 47 l after it ExitAltMode
C22_Witness ==
    /\ ps.stream = <<PieceMode1048, PieceExit47>>
    /\ ps.pos = Len(ps.bytes)
    /\ ps.events = <<"ExitAltMode">>

\* C23: the buffers of both parsers never hold more bytes than their maximum
\* buffer size, and once an unterminated sequence longer than that has been
\* fed the parser is in Normal with an empty buffer and has emitted nothing.
C23_BufferBounded ==
    /\ modeDet # Nothing =>
        /\ Len(modeDet[1].parser.buffer) <= modeDet[1].parser.max_buffer_size
        /\ (/\ Len(ps.stream) >= 1
            /\ ps.stream[1] \in {PieceLongCsi, PieceLongMode}
            /\ ps.pos = Len(ps.stream[1].bytes))
           => /\ modeDet[1].parser.state = "Normal"
              /\ modeDet[1].parser.buffer = <<>>
              /\ ps.events = <<>>
    /\ pwdDet # Nothing =>
        /\ Len(pwdDet[1].parser.buffer) <= pwdDet[1].parser.max_buffer_size
        /\ (/\ Len(ps.stream) >= 1
            /\ ps.stream[1] = PieceLongPayload
            /\ ps.pos = Len(ps.stream[1].bytes))
           => /\ pwdDet[1].parser.state = "Normal"
              /\ pwdDet[1].parser.buffer = <<>>
              /\ ps.paths = <<>>

\* the number of reports that differ from the value before them
RECURSIVE Changes(_, _)
Changes(current, reports) ==
    IF reports = <<>> THEN 0
    ELSE (IF Head(reports) # current THEN 1 ELSE 0)
         + Changes(Head(reports), Tail(reports))

Last(current, reports) ==
    IF reports = <<>> THEN current ELSE reports[Len(reports)]

\* C24: the number of values sent on the mode channel is the number of
\* reported modes that differ from the mode before them, and likewise for
\* the paths on the PWD channel, so a report of the current value sends
\* nothing; the slot of each channel holds the detector's current value.
C24_BroadcastOnTransitions ==
    /\ modeDet # Nothing =>
        LET modes == [i \in 1..Len(ps.events) |->
                         IF ps.events[i] = "EnterAltMode"
                         THEN "Alternate" ELSE "Standard"]
        IN  /\ chan.mode.version = Changes("Standard", modes)
            /\ chan.mode.value = modeDet[1].current_mode
            /\ chan.mode.value = Last("Standard", modes)
    /\ pwdDet # Nothing =>
        LET pwds == [i \in 1..Len(ps.paths) |-> <<ps.paths[i]>>]
        IN  /\ chan.pwd.version = Changes(<<>>, pwds)
            /\ chan.pwd.value = pwdDet[1].current_pwd
            /\ chan.pwd.value = Last(<<>>, pwds)

\* the same OSC 7 sequence was fed twice and one value was sent
C24_Witness ==
    /\ ps.stream = <<PieceOsc7Host, PieceOsc7Host>>
    /\ ps.pos = Len(ps.bytes)
    /\ Len(ps.paths) = 2
    /\ chan.pwd.version = 1

\* the path a piece stands for, none if its payload is longer than limit
ExpectedPath(piece, limit) ==
    IF piece.payload > limit THEN <<>> ELSE piece.path

RECURSIVE ExpectedPaths(_, _, _)
ExpectedPaths(stream, n, limit) ==
    IF n = 0 THEN <<>>
    ELSE ExpectedPaths(stream, n - 1, limit)
         \o ExpectedPath(stream[n], limit)

C26_CurrentPwd ==
    (IsPwdStream /\ pwdDet # Nothing) =>
        LET expected == ExpectedPaths(ps.stream, Cardinality(Completed),
                                      pwdDet[1].parser.max_buffer_size)
        IN  /\ pwdDet[1].current_pwd =
                 IF expected = <<>> THEN <<>>
                 ELSE <<expected[Len(expected)]>>
            /\ pwdDet[1].current_pwd # << <<>> >>

\* after ESC ] 7;file:///a%20b ESC \ and an OSC 7 sequence without a path
\* the current PWD is "/a b"
C26_Witness ==
    /\ ps.stream = <<PieceOsc7Encoded, PieceNoPathSlash>>
    /\ ps.pos = Len(ps.bytes)
    /\ pwdDet # <<>>
    /\ pwdDet[1].current_pwd = << <<47, 97, 32, 98>> >>


(***************************************************************************)
(* Properties of the PTY handle's detection calls and of the watchers      *)
(***************************************************************************)

\* detection of the kind was never asked for, or last asked for with a
\* configuration whose enabled flag is false
DetectionOff(kind) ==
    ptyb.asked[kind] = Nothing \/ ptyb.asked[kind] = Some(FALSE)

WatchersOf(kind) == {i \in 1..Len(watchers) : watchers[i].kind = kind}

\* C27: on a PTY opened with mode detection off, whatever was fed,
\* current_mode() is None, is_std_mode() true, is_alt_mode() false and
\* watch_mode() has given no watcher; with PWD detection off current_pwd()
\* is None and watch_pwd() has given no watcher.
C27_DisabledDetection ==
    handle = "open" =>
        /\ DetectionOff("mode") =>
            /\ PtyHandle_current_mode = Nothing
            /\ PtyHandle_is_std_mode
            /\ ~PtyHandle_is_alt_mode
            /\ WatchersOf("mode") = {}
        /\ DetectionOff("pwd") =>
            /\ PtyHandle_current_pwd = Nothing
            /\ WatchersOf("pwd") = {}

\* watcher i returns from a call in this step
Returned(i) ==
    i \in 1..Len(watchers) /\ watchers'[i].n = watchers[i].n + 1

\* C28: when a watcher's changed() returns a value, the channel has been
\* sent to since the watcher was created or since its previous changed()
\* returned, the value is the one in the slot, and the watcher has cached it.
C28_ChangedWaitsForTransition ==
    [][\A i \in 1..Len(watchers) :
         (/\ Returned(i)
          /\ watchers'[i].ret.op = "changed"
          /\ watchers'[i].ret.value # Nothing)
         => /\ chan[watchers[i].kind].version > watchers[i].born
            /\ watchers'[i].ret.value = <<chan[watchers[i].kind].value>>
            /\ watchers'[i].last_known = chan[watchers[i].kind].value]_vars

\* C29: the event next_event() returns has as previous the value the
\* watcher's last changed() observed (by itself, or inside next_event or
\* wait_for), or the detector's value at the watcher's creation if it has
\* observed none, and as current the value in the slot.
C29_NextEventPrevious ==
    [][\A i \in 1..Len(watchers) :
         (/\ Returned(i)
          /\ watchers'[i].ret.op = "next_event"
          /\ watchers'[i].ret.value # Nothing)
         => /\ watchers'[i].ret.previous =
                 (IF watchers[i].obs # Nothing THEN watchers[i].obs
                  ELSE watchers[i].created)
            /\ watchers'[i].ret.current = <<chan[watchers[i].kind].value>>]_vars

\* both watchers were created in Standard; the first saw Alternate and then
\* Standard, the second only the Standard at the end: each reports its own
\* previous
C29_Witness ==
    /\ Len(watchers) = 2
    /\ watchers[1].ret.op = "next_event"
    /\ watchers[2].ret.op = "next_event"
    /\ watchers[1].ret.previous = <<"Alternate">>
    /\ watchers[2].ret.previous = <<"Standard">>
    /\ watchers[1].ret.current = <<"Standard">>
    /\ watchers[2].ret.current = <<"Standard">>

\* C30: wait_for(target) returns at once, with Some(target), exactly when the
\* slot holds target at the call; a later return of Some(target) comes with a
\* changed() observation of target, None only after the session has ended,
\* and no other mode is ever returned.
C30_WaitFor ==
    [][\A i \in 1..Len(watchers) :
         /\ (watchers[i].waiting = Nothing /\ watchers'[i].waiting # Nothing)
            => chan.mode.value # watchers'[i].waiting[1]
         /\ (Returned(i) /\ watchers'[i].ret.op = "wait_for") =>
              LET ret == watchers'[i].ret
              IN  /\ ret.value \in {Nothing, <<ret.target>>}
                  /\ ret.value = Nothing => chan.mode.closed
                  /\ ret.immediate =>
                       /\ watchers[i].waiting = Nothing
                       /\ ret.value = <<ret.target>>
                       /\ chan.mode.value = ret.target
                  /\ (~ret.immediate /\ ret.value # Nothing) =>
                       /\ watchers[i].waiting = Some(ret.target)
                       /\ watchers'[i].seen # watchers[i].seen
                       /\ watchers'[i].obs = <<ret.target>>]_vars

\* a wait_for(Alternate) that had to wait has returned Some(Alternate), and
\* a wait_for(Standard) has returned None
C30_Witness ==
    /\ Len(watchers) = 2
    /\ watchers[1].ret.op = "wait_for"
    /\ ~watchers[1].ret.immediate
    /\ watchers[1].ret.value = <<"Alternate">>
    /\ watchers[2].ret.op = "wait_for"
    /\ watchers[2].ret.target = "Standard"
    /\ watchers[2].ret.value = Nothing


\* C31: changed() and next_event() return None only when no owner of the
\* detector is left (the task has ended and the handle is dropped), the
\* sender is gone and the watcher has seen the last value sent; a value the
\* watcher has not seen is delivered first, also after the sender is gone.
C31_SessionEnded ==
    [][\A i \in 1..Len(watchers) :
         (Returned(i) /\ watchers'[i].ret.op \in {"changed", "next_event"}) =>
             LET ch == chan[watchers[i].kind]
             IN  /\ watchers'[i].ret.value = Nothing =>
                      /\ handle = "dropped"
                      /\ pc = "done"
                      /\ ch.closed
                      /\ watchers[i].seen = ch.version
                 /\ (ch.closed /\ watchers[i].seen # ch.version) =>
                      watchers'[i].ret.value = <<ch.value>>]_vars

\* after the handle was dropped the watcher first got the value it had not
\* seen and then, from next_event(), None
C31_Witness ==
    /\ handle = "dropped"
    /\ Len(watchers) >= 1
    /\ watchers[1].n = 2
    /\ watchers[1].obs # Nothing
    /\ watchers[1].born = chan[watchers[1].kind].version
    /\ watchers[1].born > 0
    /\ watchers[1].ret.op = "next_event"
    /\ watchers[1].ret.value = Nothing

\* C38: every event next_event() returns has a previous that differs from
\* its current.
C38_RealTransition ==
    [][\A i \in 1..Len(watchers) :
         (/\ Returned(i)
          /\ watchers'[i].ret.op = "next_event"
          /\ watchers'[i].ret.value # Nothing)
         => watchers'[i].ret.previous # watchers'[i].ret.current]_vars


\* C33: the drain phase ends only by its timeout or by the end of the
\* channel, so that every Data message delivered before that is fed and
\* forwarded: a message of another kind does not end it.
C33_DrainForwardsAllData ==
    [][(pc = "drain" /\ pc' = "done") =>
          \/ clock.sleep >= DrainTimeoutTicks /\ recvLog' = recvLog
          \/ recvLog'[Len(recvLog')].kind = "None"]_vars

\* C34: once close() was called the actor sends EOF to the remote exactly
\* once, after the bytes written before close() in the order written, and
\* sends no data after it.
C34_EofOnce ==
    /\ NumEofs <= 1
    /\ \A i, j \in 1..Len(toRemote) :
         (toRemote[i].kind = "Eof" /\ toRemote[j].kind = "Data") => j < i
    /\ \A i, j \in 1..Len(toRemote) :
         (i < j /\ toRemote[i].kind = "Data" /\ toRemote[j].kind = "Data")
         => toRemote[i].data[1] < toRemote[j].data[1]

\* C35: when wait() has been called and the actor has the exit status, the
\* actor is not held at a send to the full output queue, where it would stay
\* for ever since nobody reads any more and wait() would not return.
C35_WaitReturns ==
    ~(/\ handle = "waiting"
      /\ status # Nothing
      /\ pc = "drainsend"
      /\ Len(outputQ) >= OutputCap)


C36_NonZeroAckFails ==
    [][(/\ scp.pc \in {"stream", "write"}
        /\ scpChan # <<>>
        /\ scpChan' = Tail(scpChan)
        /\ Head(scpChan).kind = "Data"
        /\ Head(scpChan).data[1] # 0)
       => /\ scp'.pc = "returned"
          /\ ~scp'.result[1].ok]_vars


\* the events of kind ev among the events returned
EventsOf(ev) == {i \in 1..Len(ps.events) : ps.events[i] = ev}

\* the positions up to q at which a sequence for ev ends
AltEndsOf(ev, q) ==
    {e \in 1..q : \E s \in AltSequenceOf(ev) : EndsAt(ps.bytes, e, s)}

\* C37: the alt-screen parser has returned one EnterAltMode for every
\* ESC [ ? 47 h and ESC [ ? 1049 h fed to its final byte and one ExitAltMode
\* for every ESC [ ? 47 l and ESC [ ? 1049 l, whatever bytes came before
\* them and for each buffer size.
C37_EveryOccurrenceDetected ==
    (IsModeStream /\ modeDet # Nothing) =>
        /\ Cardinality(EventsOf("EnterAltMode")) =
             Cardinality(AltEndsOf("EnterAltMode", ps.pos))
        /\ Cardinality(EventsOf("ExitAltMode")) =
             Cardinality(AltEndsOf("ExitAltMode", ps.pos))


(***************************************************************************)
(* Properties of the history buffer and its watchers                       *)
(***************************************************************************)
\* the lines of the text fed so far that have got their newline
CompleteLines(text) ==
    LET nl == SelectSeq([i \in 1..Len(text) |-> i], LAMBDA i : text[i] = 10)
    IN  [k \in 1..Len(nl) |->
            SubSeq(text, IF k = 1 THEN 1 ELSE nl[k - 1] + 1, nl[k] - 1)]

\* the text fed after the last newline
Unfinished(text) ==
    LET nl == {i \in 1..Len(text) : text[i] = 10}
    IN  SubSeq(text, IF nl = {} THEN 1
                     ELSE 1 + CHOOSE i \in nl : \A j \in nl : j <= i,
               Len(text))

\* the complete non-empty lines in arrival order, as they are stored
Arrived(text) ==
    LET full == SelectSeq(CompleteLines(text), LAMBDA l : l # <<>>)
    IN  [k \in 1..Len(full) |-> strip_ansi_codes(full[k])]

\* the sum of the content lengths
RECURSIVE Bytes(_)
Bytes(contents) ==
    IF contents = <<>> THEN 0
    ELSE String_len(Head(contents)) + Bytes(Tail(contents))

Fits(contents, config) ==
    /\ Len(contents) <= config.max_lines
    /\ Bytes(contents) <= config.max_memory_bytes

\* C39: after any sequence of feed() calls the history holds at most
\* max_lines entries of at most max_memory_bytes in all, its memory counter is
\* the sum of their content lengths, the entries are the most recent complete
\* non-empty lines in arrival order (one more of the older lines would not
\* fit), and the text after the last newline is pending.
C39_HistoryBounded ==
    hist # Nothing =>
        LET h == hist[1]
            all == Arrived(h.text)
            n == Len(all)
            k == Len(h.entries)
        IN  /\ k <= h.config.max_lines
            /\ Bytes(h.entries) <= h.config.max_memory_bytes
            /\ h.current_memory = Bytes(h.entries)
            /\ k <= n
            /\ h.entries = SubSeq(all, n - k + 1, n)
            /\ k < n => ~Fits(SubSeq(all, n - k, n), h.config)
            /\ h.pending = Unfinished(h.text)

\* lines were evicted for their size while max_lines was not reached, and a
\* partial line is pending
C39_Witness ==
    /\ hist # Nothing
    /\ Len(hist[1].entries) < Len(Arrived(hist[1].text))
    /\ Len(hist[1].entries) < hist[1].config.max_lines
    /\ hist[1].entries # <<>>
    /\ hist[1].pending # <<>>

\* C40: a wait_for_new() call is not left waiting when a complete line was
\* fed after the watcher's last observation, whether or not the entry count
\* grew; it returns None only when the history was dropped.
C40_WaitForNewReturns ==
    \A i \in 1..Len(hw) :
        /\ ~(/\ hw[i].waiting = "wait_for_new"
             /\ hw[i].seen = hist[1].event_tx.version
             /\ hist[1].event_tx.version > hw[i].born)
        /\ (hw[i].ret # Nothing /\ hw[i].ret[1].value = Nothing)
               => hist[1].event_tx.closed

====
